---------------------------- MODULE Spec2Model ----------------------------
(***************************************************************************)
(* ST7735 driver for the CH32V003 (Examples/DrawTest/st7735.c).            *)
(*                                                                         *)
(* The driver is single threaded: every public function runs to its end    *)
(* before the next one starts, so a public call is one action.  An action  *)
(* runs the function's code on a record of the driver's static variables   *)
(* and pins and leaves behind                                              *)
(*   - trace: the events the call put on the transport, in order,          *)
(*   - calls: the functions the call entered, in order, with arguments,    *)
(*   - nwr, maxidx, oob: the writes the call made to the scratch buffer.   *)
(***************************************************************************)
EXTENDS Integers, Sequences, FiniteSets, TLC

(***************************************************************************)
(* Panel geometry and colours of st7735.h (the 0.96 inch 160x80 panel in   *)
(* the horizontal rotation that tft_init selects).                         *)
(***************************************************************************)
ST7735_WIDTH == 160
ST7735_HEIGHT == 80
ST7735_X_OFFSET == 1
ST7735_Y_OFFSET == 26
BLACK == 0
WHITE == 65535

\* Delays and commands, st7735.c lines 57-72.
ST7735_RST_DELAY == 50
ST7735_SLPOUT_DELAY == 120
ST7735_SLPOUT == 17
ST7735_INVON == 33
ST7735_NORON == 19
ST7735_DISPON == 41
ST7735_MADCTL == 54
ST7735_COLMOD == 58
ST7735_GMCTRP1 == 224
ST7735_GMCTRN1 == 225
ST7735_CASET == 42
ST7735_RASET == 43
ST7735_RAMWR == 44
ST7735_MADCTL_MV == 32
ST7735_MADCTL_MY == 128
ST7735_MADCTL_BGR == 8

\* sizeof(buffer): ST7735_WIDTH << 1 bytes.
BufSize == ST7735_WIDTH * 2

(***************************************************************************)
(* Bounds of the inputs the actions draw.                                  *)
(***************************************************************************)
\* Rectangles and bitmaps are placed at coordinates 0 and MaxCoord.
MaxCoord == 1
\* Extents are drawn from 1..MaxExtent and from the panel's full extent.
MaxExtent == 2
\* Strings printed have at most MaxStr characters.
MaxStr == 2
\* Rows 0..MaxPix are among those SpecPixel's caller draws pixels in.
MaxPix == 0
\* Lines run between points of columns 0..MaxLine.
MaxLine == 4

(***************************************************************************)
(* C integer conversions.                                                  *)
(***************************************************************************)
U8(v) == v % 256
U16(v) == v % 65536
I16(v) == LET u == v % 65536 IN IF u >= 32768 THEN u - 65536 ELSE u

Hi(c) == U8(c \div 256)
Lo(c) == U8(c)

Max2(a, b) == IF a >= b THEN a ELSE b

(***************************************************************************)
(* The panel: the ST7735 controller at the other end of the bus, as the    *)
(* driver's protocol assumes it.  It listens while chip select is low.  A  *)
(* byte sent in command mode is a command.  The four data bytes after      *)
(* CASET (RASET) are the first and last column (row) of the addressing     *)
(* window, high byte first.  After RAMWR every two data bytes are one      *)
(* pixel, high byte first; pixels fill the window row by row from its      *)
(* first column and row, and start again there when the window is full.    *)
(* ram is the display RAM at the pixels a specification chooses to observe *)
(* (its domain, set by the initial state; -1: never written).              *)
(***************************************************************************)

\* A block of data bytes d, sent rep times, arrives while command cmd is open.
PanelData(p, d, rep) ==
    LET L == Len(d)
        total == L * rep
        at(q) == d[((q - p.n) % L) + 1]          \* the byte at stream offset q >= p.n
        ww == p.xe - p.xs + 1
        wh == p.ye - p.ys + 1
        A == ww * wh
        last == (p.n + total) \div 2 - 1           \* the last pixel completed
        InWin(pt) == ww > 0 /\ wh > 0 /\ pt[1] \in p.xs..p.xe /\ pt[2] \in p.ys..p.ye
        Kp(pt) == (pt[2] - p.ys) * ww + (pt[1] - p.xs)
        \* the last pixel of the stream that lands on pt
        Kl(pt) == last - ((last - Kp(pt)) % A)
        Hit(pt) == InWin(pt) /\ last >= Kp(pt) /\ 2 * Kl(pt) + 1 >= p.n
        Col(pt) == (IF 2 * Kl(pt) >= p.n THEN at(2 * Kl(pt)) ELSE p.pend) * 256
                   + at(2 * Kl(pt) + 1)
    IN  IF total = 0 THEN p
        ELSE IF p.cmd = ST7735_RAMWR
        THEN [p EXCEPT !.n = @ + total,
                       !.pend = d[L],
                       !.ram = [pt \in DOMAIN p.ram |->
                                   IF Hit(pt) THEN Col(pt) ELSE p.ram[pt]]]
        ELSE IF p.cmd \in {ST7735_CASET, ST7735_RASET} /\ rep = 1
        THEN LET a == p.args \o d
             IN  IF Len(a) >= 4
                 THEN IF p.cmd = ST7735_CASET
                      THEN [p EXCEPT !.args = a, !.xs = a[1] * 256 + a[2],
                                     !.xe = a[3] * 256 + a[4]]
                      ELSE [p EXCEPT !.args = a, !.ys = a[1] * 256 + a[2],
                                     !.ye = a[3] * 256 + a[4]]
                 ELSE [p EXCEPT !.args = a]
        ELSE p

PanelEvent(p, e) ==
    IF e.k = "rst" /\ e.v = 0
    THEN [p EXCEPT !.cmd = -1, !.args = <<>>, !.n = 0, !.pend = 0,
                   !.xs = 0, !.xe = 127, !.ys = 0, !.ye = 159]
    ELSE IF e.k \in {"byte", "dma"} /\ e.cs = 0
    THEN LET d == IF e.k = "byte" THEN <<e.v>> ELSE e.d
             rep == IF e.k = "byte" THEN 1 ELSE e.v
         IN  IF e.dc = 0
             THEN IF Len(d) = 0 \/ rep = 0 THEN p
                  ELSE [p EXCEPT !.cmd = d[Len(d)], !.args = <<>>, !.n = 0, !.pend = 0]
             ELSE PanelData(p, d, rep)
    ELSE p

\* Sequencing: Then(e, F) is F(e), the code F run on what the code before it
\* left, e.  It has TLC evaluate e once, before F.
Then(e, F(_)) == CHOOSE r \in {F(s) : s \in {e}} : TRUE

\* The panel after events lo..hi of tr, in their order.
RECURSIVE PanelRun(_, _, _, _)
PanelRun(p, tr, lo, hi) ==
    IF lo > hi THEN p
    ELSE IF lo = hi THEN PanelEvent(p, tr[lo])
    ELSE Then(PanelRun(p, tr, lo, (lo + hi) \div 2),
              LAMBDA q : PanelRun(q, tr, (lo + hi) \div 2 + 1, hi))

(***************************************************************************)
(* Transport events.  Every event is a record of the same shape:           *)
(*   k = "cfg"    SPI_init configured the bus                              *)
(*   k = "rst"    reset pin driven to level v                              *)
(*   k = "delay"  Delay_Ms(v)                                              *)
(*   k = "cs"     chip select driven to level v (0 = BEGIN_WRITE)          *)
(*   k = "dc"     data/command pin driven to level v (0 = command)         *)
(*   k = "byte"   SPI_send(v)                                              *)
(*   k = "dma"    SPI_send_DMA(d, Len(d), v): block d sent v times         *)
(* and carries in dc and cs the levels of the data/command and chip select *)
(* pins at the time of the event.  The panel sees the events of a call in  *)
(* the order they were emitted.                                            *)
(*                                                                         *)
(* A straight run of statements that touch nothing but the pins and the    *)
(* bus is the sequence of the operations it performs, in program order:    *)
(* the macros and functions below that take no driver state are such       *)
(* sequences, joined with \o.  Do(s, ops) performs a sequence on the       *)
(* driver state s: each event is emitted with the pin levels the           *)
(* operations before it left, and each function entry is recorded with the *)
(* number of events emitted before it.                                     *)
(***************************************************************************)
Ev(k, v, d) == <<[k |-> k, v |-> v, d |-> d]>>
\* Function f is entered with arguments a.
Enter(f, a) == <<[k |-> "enter", v |-> 0, d |-> <<f, a>>]>>

Do(s0, ops0) ==
    CHOOSE r \in {
        LET n == Len(ops)
            idx == [i \in 1..n |-> i]
            IsEvent(i) == ops[i].k # "enter"
            IsEnter(i) == ops[i].k = "enter"
            IsDc(i) == ops[i].k = "dc"
            IsCs(i) == ops[i].k = "cs"
            IsRst(i) == ops[i].k = "rst"
            ev == SelectSeq(idx, IsEvent)
            en == SelectSeq(idx, IsEnter)
            \* the operations that drive each pin
            dcs == SelectSeq(idx, IsDc)
            css == SelectSeq(idx, IsCs)
            rsts == SelectSeq(idx, IsRst)
            \* the level of a pin after operations 1..i, was before them
            Level(pin, i, was) ==
                LET m == Cardinality({j \in DOMAIN pin : pin[j] <= i})
                IN  IF m = 0 THEN was ELSE ops[pin[m]].v
            Before(i) == Cardinality({j \in 1..i : IsEvent(j)})
        IN  [s EXCEPT
                !.trace = @ \o [j \in 1..Len(ev) |->
                                   [k |-> ops[ev[j]].k, v |-> ops[ev[j]].v,
                                    d |-> ops[ev[j]].d,
                                    dc |-> Level(dcs, ev[j], s.dc),
                                    cs |-> Level(css, ev[j], s.cs)]],
                !.calls = @ \o [j \in 1..Len(en) |->
                                   [f |-> ops[en[j]].d[1], a |-> ops[en[j]].d[2],
                                    at |-> Len(s.trace) + Before(en[j])]],
                !.dc = Level(dcs, n, s.dc),
                !.cs = Level(css, n, s.cs),
                !.rst = Level(rsts, n, s.rst)]
        : s \in {s0}, ops \in {ops0}} : TRUE

\* Pin macros, lines 45-55.
DATA_MODE == Ev("dc", 1, <<>>)
COMMAND_MODE == Ev("dc", 0, <<>>)
RESET_HIGH == Ev("rst", 1, <<>>)
RESET_LOW == Ev("rst", 0, <<>>)
BEGIN_WRITE == Ev("cs", 0, <<>>)
END_WRITE == Ev("cs", 1, <<>>)
Delay_Ms(ms) == Ev("delay", ms, <<>>)

SPI_init == Ev("cfg", 0, <<>>)

\* SPI_send_DMA(buffer, size, repeat): the channel circulates over the first
\* size bytes of the source (a sequence), once per iteration of
\* while (repeat--).
SPI_send_DMA(src, size, repeat) ==
    Ev("dma", U16(repeat), SubSeq(src, 1, U16(size)))

SPI_send(data) == Ev("byte", U8(data), <<>>)

write_command_8(cmd) == COMMAND_MODE \o SPI_send(cmd)

write_data_8(data) == DATA_MODE \o SPI_send(data)

\* Mutant: the low byte is sent first.
M_write_data_16_low_first(data) ==
    DATA_MODE \o SPI_send(U16(data)) \o SPI_send(U16(data) \div 256)

write_data_16(data) ==
    DATA_MODE \o SPI_send(U16(data) \div 256) \o SPI_send(U16(data))

tft_set_window(x0, y0, x1, y1) ==
    Enter("tft_set_window", <<x0, y0, x1, y1>>)
    \o write_command_8(ST7735_CASET)
    \o write_data_16(x0)
    \o write_data_16(x1)
    \o write_command_8(ST7735_RASET)
    \o write_data_16(y0)
    \o write_data_16(y1)
    \o write_command_8(ST7735_RAMWR)

(***************************************************************************)
(* Scratch buffer.  A C array is a sequence: element i of the array is     *)
(* element i + 1 of the sequence.  sz is the local uint16_t sz of the      *)
(* function running.                                                       *)
(* Stores(s, vs) is buffer[sz++] = vs[1]; ...; buffer[sz++] = vs[Len(vs)]. *)
(* A store past the end of the array is undefined behaviour; it is         *)
(* recorded in oob and leaves the array alone.                             *)
(***************************************************************************)
Stores(s0, vs) ==
    Then(s0, LAMBDA s :
        LET n == Len(vs)
            at == IF s.sz <= BufSize THEN s.sz ELSE BufSize
            fit == IF at + n <= BufSize THEN n ELSE BufSize - at
        IN  IF n = 0 THEN s
            ELSE [s EXCEPT !.buffer = SubSeq(s.buffer, 1, at)
                                      \o SubSeq(vs, 1, fit)
                                      \o SubSeq(s.buffer, at + fit + 1, BufSize),
                           !.sz = U16(s.sz + n),
                           !.nwr = s.nwr + n,
                           !.maxidx = Max2(s.maxidx, s.sz + n - 1),
                           !.oob = s.oob \/ s.sz + n > BufSize])

\* SPI_send_DMA(buffer, sz, repeat): the first sz bytes of the scratch buffer.
SendBuffer(s0, repeat) ==
    Then(s0, LAMBDA s : Do(s, SPI_send_DMA(s.buffer, s.sz, repeat)))

\* uint16_t sz = 0; at the head of a fill of the buffer.
ZeroSz(s) == [s EXCEPT !.sz = 0, !.nfill = @ + 1]

\* for (j = 0; j < n; j++) { buffer[sz++] = color >> 8; buffer[sz++] = color; }
\* The loop runs Max2(n, 0) times and stores two bytes each time.
FillLoop(s, n, color) ==
    Stores(s, [k \in 1..(2 * Max2(n, 0)) |->
                  IF k % 2 = 1 THEN U8(U16(color) \div 256) ELSE U8(color)])

\* Mutant: the row is corrected by the column offset.
M_draw_pixel_wrong_offset(s, x0, y0, color) ==
    LET x == U16(x0 + ST7735_X_OFFSET)
        y == U16(y0 + ST7735_X_OFFSET)
    IN  Do(s, Enter("tft_draw_pixel", <<x0, y0, color>>)
              \o BEGIN_WRITE
              \o tft_set_window(x, y, x, y)
              \o write_data_16(color)
              \o END_WRITE)

\* Mutant: the pixel's transaction is left open.
M_draw_pixel_no_end(s, x0, y0, color) ==
    LET x == U16(x0 + ST7735_X_OFFSET)
        y == U16(y0 + ST7735_Y_OFFSET)
    IN  Do(s, Enter("tft_draw_pixel", <<x0, y0, color>>)
              \o BEGIN_WRITE
              \o tft_set_window(x, y, x, y)
              \o write_data_16(color))

tft_draw_pixel(s, x0, y0, color) ==
    LET x == U16(x0 + ST7735_X_OFFSET)
        y == U16(y0 + ST7735_Y_OFFSET)
    IN  Do(s, Enter("tft_draw_pixel", <<x0, y0, color>>)
              \o BEGIN_WRITE
              \o tft_set_window(x, y, x, y)
              \o write_data_16(color)
              \o END_WRITE)

\* Mutant: the row is sent once instead of height times.
M_fill_rect_no_repeat(s, x0, y0, width, height, color) ==
    LET x == U16(x0 + ST7735_X_OFFSET)
        y == U16(y0 + ST7735_Y_OFFSET)
        s1 == FillLoop(ZeroSz(Do(s, Enter("tft_fill_rect",
                                          <<x0, y0, width, height, color>>))),
                       width, color)
        s2 == Do(s1, BEGIN_WRITE
                     \o tft_set_window(x, y, U16(x + width - 1), U16(y + height - 1))
                     \o DATA_MODE)
    IN  Do(SendBuffer(s2, 1), END_WRITE)

\* Mutant: the block is sent with the line as the RAMWR command left it.
M_fill_rect_no_data_mode(s, x0, y0, width, height, color) ==
    LET x == U16(x0 + ST7735_X_OFFSET)
        y == U16(y0 + ST7735_Y_OFFSET)
        s1 == FillLoop(ZeroSz(Do(s, Enter("tft_fill_rect",
                                          <<x0, y0, width, height, color>>))),
                       width, color)
        s2 == Do(s1, BEGIN_WRITE
                     \o tft_set_window(x, y, U16(x + width - 1), U16(y + height - 1)))
    IN  Do(SendBuffer(s2, height), END_WRITE)

tft_fill_rect(s, x0, y0, width, height, color) ==
    LET x == U16(x0 + ST7735_X_OFFSET)
        y == U16(y0 + ST7735_Y_OFFSET)
        s1 == FillLoop(ZeroSz(Do(s, Enter("tft_fill_rect",
                                          <<x0, y0, width, height, color>>))),
                       width, color)
        s2 == Do(s1, BEGIN_WRITE
                     \o tft_set_window(x, y, U16(x + width - 1), U16(y + height - 1))
                     \o DATA_MODE)
    IN  Do(SendBuffer(s2, height), END_WRITE)

\* tft_fill_rect in the three steps an interrupt can come between.
\* Lines 381-389: the offsets and the fill of the buffer.
FillPhase(s, x0, y0, width, height, color) ==
    FillLoop(ZeroSz(Do(s, Enter("tft_fill_rect",
                                <<x0, y0, width, height, color>>))),
             width, color)

\* Lines 391-392.
WindowPhase(s, x0, y0, width, height) ==
    LET x == U16(x0 + ST7735_X_OFFSET)
        y == U16(y0 + ST7735_Y_OFFSET)
    IN  Do(s, BEGIN_WRITE
              \o tft_set_window(x, y, U16(x + width - 1), U16(y + height - 1)))

\* Mutant: the whole scratch buffer is sent, whatever was filled.
M_SendPhase_whole_buffer(s, sz, height) ==
    Do(s, DATA_MODE \o SPI_send_DMA(s.buffer, BufSize, height) \o END_WRITE)

\* Lines 393-395, with the call's own sz.
SendPhase(s, sz, height) ==
    Do(s, DATA_MODE \o SPI_send_DMA(s.buffer, sz, height) \o END_WRITE)

tft_draw_bitmap(s, x0, y0, width, height, bitmap) ==
    LET x == U16(x0 + ST7735_X_OFFSET)
        y == U16(y0 + ST7735_Y_OFFSET)
    IN  Do(s, Enter("tft_draw_bitmap", <<x0, y0, width, height>>)
              \o BEGIN_WRITE
              \o tft_set_window(x, y, U16(x + width - 1), U16(y + height - 1))
              \o DATA_MODE
              \o SPI_send_DMA(bitmap, U16(width * height * 2), 1)
              \o END_WRITE)

(***************************************************************************)
(* Text.  font5x7.h holds five column bytes per character code, bit i of a *)
(* column byte being row i of the glyph; the glyphs below are those of the *)
(* characters the model prints.                                            *)
(***************************************************************************)
Glyph(c) ==
    CASE c = 32 -> <<0, 0, 0, 0, 0>>
      [] c = 40 -> <<0, 28, 34, 65, 0>>
      [] c = 41 -> <<0, 65, 34, 28, 0>>
      [] c = 42 -> <<42, 28, 127, 28, 42>>
      [] c = 44 -> <<0, 128, 112, 48, 0>>
      [] c = 45 -> <<8, 8, 8, 8, 8>>
      [] c = 46 -> <<0, 0, 96, 96, 0>>
      [] c = 47 -> <<32, 16, 8, 4, 2>>
      [] c = 48 -> <<62, 81, 73, 69, 62>>
      [] c = 49 -> <<0, 66, 127, 64, 0>>
      [] c = 50 -> <<114, 73, 73, 73, 70>>
      [] c = 51 -> <<33, 65, 73, 77, 51>>
      [] c = 52 -> <<24, 20, 18, 127, 16>>
      [] c = 53 -> <<39, 69, 69, 69, 57>>
      [] c = 54 -> <<60, 74, 73, 73, 49>>
      [] c = 55 -> <<65, 33, 17, 9, 7>>
      [] c = 56 -> <<54, 73, 73, 73, 54>>
      [] c = 57 -> <<70, 73, 73, 41, 30>>
      [] c = 65 -> <<124, 18, 17, 18, 124>>
      [] OTHER -> <<0, 0, 0, 0, 0>>

font(i) == Glyph(i \div 5)[(i % 5) + 1]

\* v & (0x01 << i)
BitSet(v, i) == (v \div (2 ^ i)) % 2 = 1

\* The loops of tft_print_char nested the other way round, the column outside
\* and the bit row inside.
M_GlyphLoop_column_major(s0, start) ==
    Then(s0, LAMBDA s :
        LET c(k) == IF BitSet(font(start + (k \div 7)), k % 7) THEN s.color
                                                                ELSE s.bg_color
        IN  Stores(s, [b \in 1..70 |->
                          IF b % 2 = 1 THEN U8(c((b - 1) \div 2) \div 256)
                                       ELSE U8(c((b - 1) \div 2))]))

\* The two nested loops of tft_print_char, lines 297-312: pass (i, j) is the
\* k-th, k = 5 * i + j, and stores the two bytes of one colour.
GlyphLoop(s0, start) ==
    Then(s0, LAMBDA s :
        LET c(k) == IF BitSet(font(start + (k % 5)), k \div 5) THEN s.color
                                                                ELSE s.bg_color
        IN  Stores(s, [b \in 1..70 |->
                          IF b % 2 = 1 THEN U8(c((b - 1) \div 2) \div 256)
                                       ELSE U8(c((b - 1) \div 2))]))

tft_print_char(s0, c) ==
    Then(s0, LAMBDA s :
        LET s1 == GlyphLoop(ZeroSz(Do(s, Enter("tft_print_char",
                                               <<c, s.cursor_x, s.cursor_y>>))),
                            c + c * 4)
            s2 == Do(s1, BEGIN_WRITE
                         \o tft_set_window(s.cursor_x, s.cursor_y,
                                           U16(s.cursor_x + 4), U16(s.cursor_x + 6))
                         \o DATA_MODE)
        IN  Do(SendBuffer(s2, 1), END_WRITE))

\* while (*str) { tft_print_char(*str++); _cursor_x += 6; }
\* The loop makes one pass for each character from str[i] up to the one before
\* the first NUL, str[StrEnd(str, i)], in their order.  PrintPasses makes the
\* passes for str[lo] .. str[hi], the first half of them and then the rest,
\* each pass moving the cursor on by adv.
StrEnd(str, i) ==
    LET Z == {j \in i..Len(str) : str[j] = 0}
    IN  IF Z = {} THEN Len(str) ELSE (CHOOSE j \in Z : \A h \in Z : j <= h) - 1

RECURSIVE PrintPasses(_, _, _, _, _)
PrintPasses(s, str, lo, hi, adv) ==
    IF lo > hi THEN s
    ELSE IF lo = hi
    THEN [tft_print_char(s, str[lo]) EXCEPT !.cursor_x = U16(@ + adv)]
    ELSE Then(PrintPasses(s, str, lo, (lo + hi) \div 2, adv),
              LAMBDA r : PrintPasses(r, str, (lo + hi) \div 2 + 1, hi, adv))

\* Mutant: the cursor advances by the glyph's width, without the spacing.
M_PrintLoop_no_spacing(s0, str, i) == PrintPasses(s0, str, i, StrEnd(str, i), 5)

PrintLoop(s0, str, i) == PrintPasses(s0, str, i, StrEnd(str, i), 6)

tft_print(s, str) == PrintLoop(Do(s, Enter("tft_print", str)), str, 1)

(***************************************************************************)
(* tft_print_number.  num is an int32_t.  num = -num overflows for         *)
(* INT32_MIN, which is undefined behaviour; the outcomes modelled are      *)
(*   "wrap":     the negation wraps, num stays INT32_MIN and the signed    *)
(*               num % 10, num / 10 of the loop work on a negative value,  *)
(*   "unsigned": the compiler, entitled to take num >= 0 after the         *)
(*               negation, divides as unsigned: num is 2^31.               *)
(***************************************************************************)
INT32_MIN == -2147483647 - 1

\* C's % and / by 10 (truncation towards zero).
CMod10(a) == IF a >= 0 THEN a % 10
             ELSE LET m == a % 10 IN IF m = 0 THEN 0 ELSE m - 10
CDiv10(a) == (a - CMod10(a)) \div 10

\* while (num) { str[--digits] = num % 10 + '0'; num /= 10; }
\* r = [str, digits]: str is str[0..11] as a sequence (str[i] at i + 1).
RECURSIVE DigitLoop(_, _)
DigitLoop(r0, num) ==
    Then(r0, LAMBDA r :
        IF num # 0
        THEN DigitLoop([str |-> [r.str EXCEPT ![r.digits] = U8(CMod10(num) + 48)],
                        digits |-> r.digits - 1], CDiv10(num))
        ELSE r)

\* while (digits) { str[--digits] = ' '; }
RECURSIVE SpaceLoop(_)
SpaceLoop(r0) ==
    Then(r0, LAMBDA r :
        IF r.digits # 0
        THEN SpaceLoop([str |-> [r.str EXCEPT ![r.digits] = 32],
                        digits |-> r.digits - 1])
        ELSE r)

\* The characters of str before its terminating NUL.
RECURSIVE CString(_, _)
CString(str, i) ==
    IF i > Len(str) \/ str[i] = 0 THEN <<>> ELSE <<str[i]>> \o CString(str, i + 1)

\* The string tft_print_number hands to tft_print.  static char str[12]: a
\* call stores every element before tft_print reads it, so the array carries
\* nothing from one call to the next and starts here as zeros.
NumberString(num0, ub) ==
    LET neg == num0 < 0
        r0 == [str |-> <<0, 0, 0, 0, 0, 0, 0, 0, 0, 0, 0, 0>>, digits |-> 11]
        r1 == IF num0 = INT32_MIN
              THEN IF ub = "wrap"
                   THEN DigitLoop(r0, INT32_MIN)
                   ELSE DigitLoop([str |-> [r0.str EXCEPT ![11] = 56],
                                   digits |-> 10], 214748364)
              ELSE DigitLoop(r0, IF neg THEN -num0 ELSE num0)
        r2 == Then(r1, LAMBDA r :
                  IF r.digits = 11
                  THEN [str |-> [r.str EXCEPT ![11] = 48], digits |-> 10]
                  ELSE r)
        r3 == Then(r2, LAMBDA r :
                  IF neg
                  THEN [str |-> [r.str EXCEPT ![r.digits] = 45],
                        digits |-> r.digits - 1]
                  ELSE r)
    IN  SpaceLoop(r3).str

tft_print_number(s, num, ub) ==
    Then(CString(NumberString(num, ub), 1), LAMBDA str :
        tft_print(Do(s, Enter("tft_print_number", <<num>>)), str))

(***************************************************************************)
(* Lines and rectangles.  The fast lines take int16_t arguments.           *)
(***************************************************************************)
\* Mutant: one pixel is stored and sent once, whatever the height.
M_v_line_one_pixel(s, x0, y0, h, color) ==
    LET x == I16(x0 + ST7735_X_OFFSET)
        y == I16(y0 + ST7735_Y_OFFSET)
        s1 == FillLoop(ZeroSz(Do(s, Enter("_tft_draw_fast_v_line",
                                          <<x0, y0, h, color>>))), 1, color)
        s2 == Do(s1, BEGIN_WRITE
                     \o tft_set_window(U16(x), U16(y), U16(x), U16(y + h - 1))
                     \o DATA_MODE)
    IN  Do(SendBuffer(s2, 1), END_WRITE)

_tft_draw_fast_v_line(s, x0, y0, h, color) ==
    LET x == I16(x0 + ST7735_X_OFFSET)
        y == I16(y0 + ST7735_Y_OFFSET)
        s1 == FillLoop(ZeroSz(Do(s, Enter("_tft_draw_fast_v_line",
                                          <<x0, y0, h, color>>))), h, color)
        s2 == Do(s1, BEGIN_WRITE
                     \o tft_set_window(U16(x), U16(y), U16(x), U16(y + h - 1))
                     \o DATA_MODE)
    IN  Do(SendBuffer(s2, 1), END_WRITE)

_tft_draw_fast_h_line(s, x0, y0, w, color) ==
    LET x == I16(x0 + ST7735_X_OFFSET)
        y == I16(y0 + ST7735_Y_OFFSET)
        s1 == FillLoop(ZeroSz(Do(s, Enter("_tft_draw_fast_h_line",
                                          <<x0, y0, w, color>>))), w, color)
        s2 == Do(s1, BEGIN_WRITE
                     \o tft_set_window(U16(x), U16(y), U16(x + w - 1), U16(y))
                     \o DATA_MODE)
    IN  Do(SendBuffer(s2, 1), END_WRITE)

\* #define _diff(a, b) ((a > b) ? (a - b) : (b - a))
_diff(a, b) == IF a > b THEN a - b ELSE b - a

\* for (; x0 <= x1; x0++) { ... } of _tft_draw_line, lines 479-495.
RECURSIVE BresenhamLoop(_, _, _, _, _, _, _, _, _, _)
\* Mutant: the error term is not restored when the minor coordinate steps.
M_BresenhamLoop_no_restore(s0, x0, y0, x1, dx, dy, err, step, steep, color) ==
    Then(s0, LAMBDA s :
        IF x0 <= x1
        THEN LET s1 == IF steep THEN tft_draw_pixel(s, U16(y0), U16(x0), color)
                                ELSE tft_draw_pixel(s, U16(x0), U16(y0), color)
                 e1 == I16(err - dy)
             IN  IF e1 < 0
                 THEN BresenhamLoop(s1, I16(x0 + 1), I16(y0 + step + step), x1, dx, dy,
                                    I16(e1 + dx), step, steep, color)
                 ELSE BresenhamLoop(s1, I16(x0 + 1), y0, x1, dx, dy, e1, step,
                                    steep, color)
        ELSE s)

BresenhamLoop(s0, x0, y0, x1, dx, dy, err, step, steep, color) ==
    Then(s0, LAMBDA s :
        IF x0 <= x1
        THEN LET s1 == IF steep THEN tft_draw_pixel(s, U16(y0), U16(x0), color)
                                ELSE tft_draw_pixel(s, U16(x0), U16(y0), color)
                 e1 == I16(err - dy)
             IN  IF e1 < 0
                 THEN BresenhamLoop(s1, I16(x0 + 1), I16(y0 + step), x1, dx, dy,
                                    I16(e1 + dx), step, steep, color)
                 ELSE BresenhamLoop(s1, I16(x0 + 1), y0, x1, dx, dy, e1, step,
                                    steep, color)
        ELSE s)

\* Mutant: the ends are not put in order of x.
M_tft_draw_line_no_swap(s, ax0, ay0, ax1, ay1, color) ==
    LET steep == _diff(ay1, ay0) > _diff(ax1, ax0)
        x0 == IF steep THEN ay0 ELSE ax0
        y0 == IF steep THEN ax0 ELSE ay0
        x1 == IF steep THEN ay1 ELSE ax1
        y1 == IF steep THEN ax1 ELSE ay1
        dx == I16(x1 - x0)
        dy == I16(_diff(y1, y0))
        err == dx \div 2
        step == IF y0 < y1 THEN 1 ELSE -1
    IN  BresenhamLoop(Do(s, Enter("_tft_draw_line",
                                  <<ax0, ay0, ax1, ay1, color>>)),
                      x0, y0, x1, dx, dy, err, step, steep, color)

_tft_draw_line(s, ax0, ay0, ax1, ay1, color) ==
    LET steep == _diff(ay1, ay0) > _diff(ax1, ax0)
        \* if (steep) { swap(x0, y0); swap(x1, y1); }
        bx0 == IF steep THEN ay0 ELSE ax0
        by0 == IF steep THEN ax0 ELSE ay0
        bx1 == IF steep THEN ay1 ELSE ax1
        by1 == IF steep THEN ax1 ELSE ay1
        \* if (x0 > x1) { swap(x0, x1); swap(y0, y1); }
        x0 == IF bx0 > bx1 THEN bx1 ELSE bx0
        x1 == IF bx0 > bx1 THEN bx0 ELSE bx1
        y0 == IF bx0 > bx1 THEN by1 ELSE by0
        y1 == IF bx0 > bx1 THEN by0 ELSE by1
        dx == I16(x1 - x0)
        dy == I16(_diff(y1, y0))
        err == dx \div 2
        step == IF y0 < y1 THEN 1 ELSE -1
    IN  BresenhamLoop(Do(s, Enter("_tft_draw_line",
                                  <<ax0, ay0, ax1, ay1, color>>)),
                      x0, y0, x1, dx, dy, err, step, steep, color)

\* Mutant: the bottom and right edges are drawn one pixel too far out.
M_draw_rect_outside(s, x, y, width, height, color) ==
    LET s0 == Do(s, Enter("tft_draw_rect", <<x, y, width, height, color>>))
        s1 == _tft_draw_fast_h_line(s0, I16(x), I16(y), I16(width), color)
        s2 == Then(s1, LAMBDA r : _tft_draw_fast_h_line(r, I16(x),
                                      I16(y + height), I16(width), color))
        s3 == Then(s2, LAMBDA r : _tft_draw_fast_v_line(r, I16(x), I16(y),
                                      I16(height), color))
    IN  Then(s3, LAMBDA r : _tft_draw_fast_v_line(r, I16(x + width), I16(y),
                                I16(height), color))

tft_draw_rect(s, x, y, width, height, color) ==
    LET s0 == Do(s, Enter("tft_draw_rect", <<x, y, width, height, color>>))
        s1 == _tft_draw_fast_h_line(s0, I16(x), I16(y), I16(width), color)
        s2 == Then(s1, LAMBDA r : _tft_draw_fast_h_line(r, I16(x),
                                      I16(y + height - 1), I16(width), color))
        s3 == Then(s2, LAMBDA r : _tft_draw_fast_v_line(r, I16(x), I16(y),
                                      I16(height), color))
    IN  Then(s3, LAMBDA r : _tft_draw_fast_v_line(r, I16(x + width - 1), I16(y),
                                I16(height), color))

\* Mutant: the length of a straight line leaves out its last pixel.
M_draw_line_short(s, x0, y0, x1, y1, color) ==
    LET s0 == Do(s, Enter("tft_draw_line", <<x0, y0, x1, y1, color>>))
    IN  IF x0 = x1
        THEN LET ya == IF y0 > y1 THEN y1 ELSE y0
                 yb == IF y0 > y1 THEN y0 ELSE y1
             IN  _tft_draw_fast_v_line(s0, x0, ya, I16(yb - ya), color)
        ELSE IF y0 = y1
        THEN LET xa == IF x0 > x1 THEN x1 ELSE x0
                 xb == IF x0 > x1 THEN x0 ELSE x1
             IN  _tft_draw_fast_h_line(s0, xa, y0, I16(xb - xa), color)
        ELSE _tft_draw_line(s0, x0, y0, x1, y1, color)

tft_draw_line(s, x0, y0, x1, y1, color) ==
    LET s0 == Do(s, Enter("tft_draw_line", <<x0, y0, x1, y1, color>>))
    IN  IF x0 = x1
        THEN LET ya == IF y0 > y1 THEN y1 ELSE y0
                 yb == IF y0 > y1 THEN y0 ELSE y1
             IN  _tft_draw_fast_v_line(s0, x0, ya, I16(yb - ya + 1), color)
        ELSE IF y0 = y1
        THEN LET xa == IF x0 > x1 THEN x1 ELSE x0
                 xb == IF x0 > x1 THEN x0 ELSE x1
             IN  _tft_draw_fast_h_line(s0, xa, y0, I16(xb - xa + 1), color)
        ELSE _tft_draw_line(s0, x0, y0, x1, y1, color)

(***************************************************************************)
(* tft_init, lines 205-263.                                                *)
(***************************************************************************)
gamma_p == <<9, 22, 9, 32, 33, 27, 19, 25, 23, 21, 30, 43, 4, 5, 2, 14>>
gamma_n == <<11, 20, 8, 30, 34, 29, 24, 30, 27, 26, 36, 43, 6, 6, 2, 15>>

\* Mutant: the wait after waking the controller is left out.
M_tft_init_no_wake_delay(s) ==
    Do(s, Enter("tft_init", <<>>)
          \o SPI_init
          \o RESET_LOW \o Delay_Ms(ST7735_RST_DELAY)
          \o RESET_HIGH \o Delay_Ms(ST7735_RST_DELAY)
          \o BEGIN_WRITE
          \o write_command_8(ST7735_SLPOUT)
          \o write_command_8(ST7735_MADCTL)
          \o write_data_8(ST7735_MADCTL_MY + ST7735_MADCTL_MV + ST7735_MADCTL_BGR)
          \o write_command_8(ST7735_COLMOD)
          \o write_data_8(5)
          \o write_command_8(ST7735_GMCTRP1)
          \o DATA_MODE \o SPI_send_DMA(gamma_p, 16, 1)
          \o write_command_8(ST7735_GMCTRN1)
          \o DATA_MODE \o SPI_send_DMA(gamma_n, 16, 1)
          \o Delay_Ms(10)
          \o write_command_8(ST7735_INVON)
          \o write_command_8(ST7735_NORON) \o Delay_Ms(10)
          \o write_command_8(ST7735_DISPON) \o Delay_Ms(10)
          \o END_WRITE)

tft_init(s) ==
    Do(s, Enter("tft_init", <<>>)
          \o SPI_init
          \o RESET_LOW \o Delay_Ms(ST7735_RST_DELAY)
          \o RESET_HIGH \o Delay_Ms(ST7735_RST_DELAY)
          \o BEGIN_WRITE
          \o write_command_8(ST7735_SLPOUT) \o Delay_Ms(ST7735_SLPOUT_DELAY)
          \o write_command_8(ST7735_MADCTL)
          \o write_data_8(ST7735_MADCTL_MY + ST7735_MADCTL_MV + ST7735_MADCTL_BGR)
          \o write_command_8(ST7735_COLMOD)
          \o write_data_8(5)
          \o write_command_8(ST7735_GMCTRP1)
          \o DATA_MODE \o SPI_send_DMA(gamma_p, 16, 1)
          \o write_command_8(ST7735_GMCTRN1)
          \o DATA_MODE \o SPI_send_DMA(gamma_n, 16, 1)
          \o Delay_Ms(10)
          \o write_command_8(ST7735_INVON)
          \o write_command_8(ST7735_NORON) \o Delay_Ms(10)
          \o write_command_8(ST7735_DISPON) \o Delay_Ms(10)
          \o END_WRITE)

\* Setters, lines 265-279.
tft_set_cursor(s, x, y) ==
    [Do(s, Enter("tft_set_cursor", <<x, y>>))
        EXCEPT !.cursor_x = U16(x + ST7735_X_OFFSET),
               !.cursor_y = U16(y + ST7735_Y_OFFSET)]

\* Mutant: setting the foreground colour sets the background colour too.
M_set_color_both(s, c) ==
    [Do(s, Enter("tft_set_color", <<c>>)) EXCEPT !.color = c, !.bg_color = c]

tft_set_color(s, c) == [Do(s, Enter("tft_set_color", <<c>>)) EXCEPT !.color = c]

tft_set_background_color(s, c) ==
    [Do(s, Enter("tft_set_background_color", <<c>>)) EXCEPT !.bg_color = c]

(***************************************************************************)
(* State.                                                                  *)
(***************************************************************************)
VARIABLES
    cursor_x, cursor_y,   \* _cursor_x, _cursor_y
    color, bg_color,      \* _color, _bg_color
    buffer,               \* the scratch buffer: buffer[i] of the code is buffer[i + 1]
    dc, cs, rst,          \* levels of the data/command, chip select, reset pins
    lcd,                  \* the panel
    printed,              \* tft_print and tft_print_number calls since the
                          \* cursor was last set
    pixels,               \* the colour the caller last gave tft_draw_pixel for
                          \* each observed pixel, by its logical coordinates
    op,                   \* the last public call: [f |-> function, a |-> arguments]
    trace,                \* the transport events of the last public call
    calls,                \* the functions the last public call entered
    nfill, nwr, maxidx, oob, \* its fills of and stores to the scratch buffer
    ncalls,               \* public calls made so far, where a caller counts them
    xfer,                 \* the public call in progress, where its waits for the
                          \* transport are followed: its place and the flag it polls
    main                  \* the tft_fill_rect in progress, where an interrupt may
                          \* call the driver while it runs

vars == <<cursor_x, cursor_y, color, bg_color, buffer, dc, cs, rst, lcd,
          printed, pixels, op, trace, calls, nfill, nwr, maxidx, oob, ncalls,
          xfer, main>>

\* tft_print and tft_print_number calls since the cursor was last set: at
\* most MaxPrinted.
MaxPrinted == 1
\* Calls the caller of Spec makes: at most MaxCalls.
MaxCalls == 3

Colors == {4660, 43981}
CX == {0, MaxCoord}
CY == {0, MaxCoord}
WS == (1..MaxExtent) \cup {ST7735_WIDTH}
HS == (1..MaxExtent) \cup {ST7735_HEIGHT}
Chars == {45, 65}
Strings == UNION {[1..n -> Chars] : n \in 0..MaxStr}
Nums == {0, -7, 2147483647, INT32_MIN}
\* The outcomes of num = -num.
Negations(num) == IF num = INT32_MIN THEN {"wrap", "unsigned"} ELSE {"defined"}
\* Caller's bitmaps: w * h pixels, high byte first, of two colours in turn.
Bitmap(w, h, seed) ==
    [i \in 1..(2 * w * h) |->
        LET c == IF (((i - 1) \div 2) + seed) % 2 = 0 THEN 4660 ELSE 43981
        IN  IF i % 2 = 1 THEN c \div 256 ELSE c % 256]

\* No public call is in progress.
NoCall == [pc |-> "idle", f |-> "none", a |-> <<>>, res |-> <<>>, i |-> 0,
           left |-> 0, flag |-> TRUE, done |-> 0]
NoMain == [pc |-> "idle", a |-> <<>>, sz |-> 0, irqs |-> 0, sent |-> <<>>,
           win |-> <<>>]

\* The state after the static initialisers, lines 90-94, with the panel just
\* powered up and the display RAM observed at the pixels of probes.
InitObserving(probes) ==
    /\ cursor_x = 0
    /\ cursor_y = 0
    /\ color = BLACK
    /\ bg_color = WHITE
    /\ buffer = [i \in 1..BufSize |-> 0]
    /\ dc = 0
    /\ cs = 0
    /\ rst = 0
    /\ lcd = [cmd |-> -1, args |-> <<>>, n |-> 0, pend |-> 0,
              xs |-> 0, xe |-> 127, ys |-> 0, ye |-> 159,
              ram |-> [pt \in probes |-> -1]]
    /\ printed = 0
    /\ pixels = [pt \in {<<q[1] - ST7735_X_OFFSET, q[2] - ST7735_Y_OFFSET>> :
                            q \in probes} |-> -1]
    /\ op = [f |-> "none", a |-> <<>>]
    /\ trace = <<>>
    /\ calls = <<>>
    /\ nfill = 0
    /\ nwr = 0
    /\ maxidx = -1
    /\ oob = FALSE
    /\ ncalls = 0
    /\ xfer = NoCall
    /\ main = NoMain

Init == InitObserving({})

\* The driver as a public call finds it.
Drv ==
    [cursor_x |-> cursor_x, cursor_y |-> cursor_y, color |-> color,
     bg_color |-> bg_color, buffer |-> buffer, dc |-> dc, cs |-> cs, rst |-> rst,
     trace |-> <<>>, calls |-> <<>>, sz |-> 0, nfill |-> 0, nwr |-> 0,
     maxidx |-> -1, oob |-> FALSE]

\* The public call f(a) returned, leaving the driver as s.
Return(f, a, s) ==
    /\ cursor_x' = s.cursor_x
    /\ cursor_y' = s.cursor_y
    /\ color' = s.color
    /\ bg_color' = s.bg_color
    /\ buffer' = s.buffer
    /\ dc' = s.dc
    /\ cs' = s.cs
    /\ rst' = s.rst
    /\ lcd' = PanelRun(lcd, s.trace, 1, Len(s.trace))
    /\ op' = [f |-> f, a |-> a]
    /\ trace' = s.trace
    /\ calls' = s.calls
    /\ nfill' = s.nfill
    /\ nwr' = s.nwr
    /\ maxidx' = s.maxidx
    /\ oob' = s.oob

(***************************************************************************)
(* Public calls.                                                           *)
(***************************************************************************)
Call_tft_init ==
    /\ \E s \in {tft_init(Drv)} : Return("tft_init", <<>>, s)
    /\ UNCHANGED <<printed, pixels>>

Call_tft_set_cursor(X, Y) ==
    \E x \in X, y \in Y :
        /\ \E s \in {tft_set_cursor(Drv, x, y)} : Return("tft_set_cursor", <<x, y>>, s)
        /\ printed' = 0
        /\ UNCHANGED pixels

Call_tft_set_color(C) ==
    \E c \in C :
        /\ \E s \in {tft_set_color(Drv, c)} : Return("tft_set_color", <<c>>, s)
        /\ UNCHANGED <<printed, pixels>>

Call_tft_set_background_color(C) ==
    \E c \in C :
        /\ \E s \in {tft_set_background_color(Drv, c)} :
               Return("tft_set_background_color", <<c>>, s)
        /\ UNCHANGED <<printed, pixels>>

Call_tft_print_char(CH) ==
    \E c \in CH :
        /\ \E s \in {tft_print_char(Drv, c)} : Return("tft_print_char", <<c>>, s)
        /\ UNCHANGED <<printed, pixels>>

Call_tft_print(S) ==
    \E str \in S :
        /\ printed < MaxPrinted
        /\ \E s \in {tft_print(Drv, str)} : Return("tft_print", str, s)
        /\ printed' = printed + 1
        /\ UNCHANGED pixels

Call_tft_print_number(N) ==
    \E num \in N :
        \E ub \in Negations(num) :
            /\ printed < MaxPrinted
            /\ \E s \in {tft_print_number(Drv, num, ub)} :
                   Return("tft_print_number", <<num>>, s)
            /\ printed' = printed + 1
        /\ UNCHANGED pixels

Call_tft_draw_pixel(X, Y, C) ==
    \E x \in X, y \in Y, c \in C :
        /\ \E s \in {tft_draw_pixel(Drv, x, y, c)} :
               Return("tft_draw_pixel", <<x, y, c>>, s)
        /\ pixels' = IF <<x, y>> \in DOMAIN pixels
                      THEN [pixels EXCEPT ![<<x, y>>] = c] ELSE pixels
        /\ UNCHANGED printed

Call_tft_fill_rect(X, Y, W, H, C) ==
    \E x \in X, y \in Y, w \in W, h \in H, c \in C :
        /\ \E s \in {tft_fill_rect(Drv, x, y, w, h, c)} :
               Return("tft_fill_rect", <<x, y, w, h, c>>, s)
        /\ UNCHANGED <<printed, pixels>>

Call_tft_draw_bitmap(X, Y, W, H) ==
    \E x \in X, y \in Y, w \in W, h \in H, seed \in {0, 1} :
        /\ \E s \in {tft_draw_bitmap(Drv, x, y, w, h, Bitmap(w, h, seed))} :
               Return("tft_draw_bitmap", <<x, y, w, h, seed>>, s)
        /\ UNCHANGED <<printed, pixels>>

Call_tft_draw_rect(X, Y, W, H, C) ==
    \E x \in X, y \in Y, w \in W, h \in H, c \in C :
        /\ \E s \in {tft_draw_rect(Drv, x, y, w, h, c)} :
               Return("tft_draw_rect", <<x, y, w, h, c>>, s)
        /\ UNCHANGED <<printed, pixels>>

Call_tft_draw_line(X0, Y0, X1, Y1, C) ==
    \E x0 \in X0, y0 \in Y0, x1 \in X1, y1 \in Y1, c \in C :
        /\ \E s \in {tft_draw_line(Drv, x0, y0, x1, y1, c)} :
               Return("tft_draw_line", <<x0, y0, x1, y1, c>>, s)
        /\ UNCHANGED <<printed, pixels>>

\* Spec: a caller that makes up to MaxCalls calls, of any public function.
Budget == ncalls < MaxCalls /\ ncalls' = ncalls + 1 /\ UNCHANGED <<xfer, main>>
Next ==
    \/ Budget /\ Call_tft_init
    \/ Budget /\ Call_tft_set_cursor(CX, CY)
    \/ Budget /\ Call_tft_set_color({4660})
    \/ Budget /\ Call_tft_set_background_color({43981})
    \/ Budget /\ Call_tft_print_char({65})
    \/ Budget /\ Call_tft_print({<<65, 45>>})
    \/ Budget /\ Call_tft_print_number({-7})
    \/ Budget /\ Call_tft_draw_pixel(CX, CY, {4660})
    \/ Budget /\ Call_tft_fill_rect(CX, {0}, {MaxExtent, ST7735_WIDTH}, {ST7735_HEIGHT}, {4660})
    \/ Budget /\ Call_tft_draw_bitmap(CX, {0}, {MaxExtent}, {MaxExtent})
    \/ Budget /\ Call_tft_draw_rect({0}, {0}, {MaxExtent}, {ST7735_HEIGHT}, {4660})
    \/ Budget /\ Call_tft_draw_line({0}, {0}, {0, MaxCoord}, {0, MaxCoord}, {4660})
    \/ Budget /\ Call_tft_draw_line({0}, {0}, {0}, {ST7735_HEIGHT - 1}, {4660})
Spec == Init /\ [][Next]_vars

\* SpecFill: a caller that only fills rectangles.
NextFill ==
    /\ Call_tft_fill_rect(CX, CY, WS, HS \cup {ST7735_HEIGHT + 1}, Colors)
    /\ UNCHANGED <<ncalls, xfer, main>>
SpecFill == Init /\ [][NextFill]_vars

\* SpecPixel: a caller that only draws pixels, at the corners of the panel and
\* down its left and right edges to row MaxPix; the display RAM is observed
\* at the pixels the caller can draw.
PX == {0, ST7735_WIDTH - 1}
PY == (0..MaxPix) \cup {ST7735_HEIGHT - 1}
PixProbes == {<<x + ST7735_X_OFFSET, y + ST7735_Y_OFFSET>> : x \in PX, y \in PY}
InitPixel == InitObserving(PixProbes)
NextPixel == Call_tft_draw_pixel(PX, PY, Colors) /\ UNCHANGED <<ncalls, xfer, main>>
SpecPixel == InitPixel /\ [][NextPixel]_vars

\* SpecLine: a caller that only draws lines, from a point of column 0 or
\* MaxLine to a point of columns 0..MaxLine, both in the first three rows.
LX == 0..MaxLine
LY == 0..2
NextLine ==
    Call_tft_draw_line({0, MaxLine}, LY, LX, LY, {4660}) /\ UNCHANGED <<ncalls, xfer, main>>
SpecLine == Init /\ [][NextLine]_vars

(***************************************************************************)
(* Observations of the last call.                                          *)
(***************************************************************************)
IsDma(e) == e.k = "dma"
IsByte(e) == e.k = "byte"
IsSent(e) == e.k \in {"byte", "dma"}
Dmas == SelectSeq(trace, IsDma)
IsSetWindow(c) == c.f = "tft_set_window"
Windows == SelectSeq(calls, IsSetWindow)
\* w pixels of colour c, high byte first.
PixelRun(w, c) == [k \in 1..(2 * w) |-> IF k % 2 = 1 THEN Hi(c) ELSE Lo(c)]

(***************************************************************************)
(* C1.  Every tft_fill_rect(x, y, w, h, color) with 1 <= w <= display      *)
(* width and h >= 1 fills the scratch buffer once, with 2 * w bytes (w     *)
(* times the colour's high and low byte), sets the window to               *)
(* (x + X_OFFSET, y + Y_OFFSET, x + X_OFFSET + w - 1, y + Y_OFFSET + h - 1)*)
(* and issues one block transfer of 2 * w bytes with repeat count h: the   *)
(* 2 * w * h bytes of the rectangle.                                       *)
(***************************************************************************)
C1_FillRect ==
    (op.f = "tft_fill_rect" /\ op.a[3] >= 1 /\ op.a[3] <= ST7735_WIDTH
                            /\ op.a[4] >= 1) =>
        LET x == op.a[1]
            y == op.a[2]
            w == op.a[3]
            h == op.a[4]
            c == op.a[5]
        IN  /\ nfill = 1
            /\ nwr = 2 * w
            /\ maxidx = 2 * w - 1
            /\ SubSeq(buffer, 1, 2 * w) = PixelRun(w, c)
            /\ Len(Windows) = 1
            /\ Windows[1].a = <<x + ST7735_X_OFFSET, y + ST7735_Y_OFFSET,
                                x + ST7735_X_OFFSET + w - 1,
                                y + ST7735_Y_OFFSET + h - 1>>
            /\ <<lcd.xs, lcd.ys, lcd.xe, lcd.ye>> = Windows[1].a
            /\ Len(Dmas) = 1
            /\ Dmas[1].d = PixelRun(w, c)
            /\ Dmas[1].v = h
            /\ lcd.cmd = ST7735_RAMWR
            /\ lcd.n = 2 * w * h

C1_Witness ==
    /\ op.f = "tft_fill_rect"
    /\ op.a[3] = ST7735_WIDTH
    /\ op.a[4] = ST7735_HEIGHT
    /\ Len(Dmas) = 1
    /\ lcd.n = 2 * ST7735_WIDTH * ST7735_HEIGHT

(***************************************************************************)
(* C2.  After any sequence of tft_draw_pixel calls within the panel, the   *)
(* display RAM holds at every coordinate the colour last set there; each   *)
(* call sets the window to the single offset-corrected point (x, y, x, y)  *)
(* and then writes one 16-bit colour value.                                *)
(***************************************************************************)
C2_PixelRam ==
    /\ \A pt \in DOMAIN pixels :
           lcd.ram[<<pt[1] + ST7735_X_OFFSET, pt[2] + ST7735_Y_OFFSET>>] = pixels[pt]
    /\ op.f = "tft_draw_pixel" =>
           /\ Len(Windows) = 1
           /\ Windows[1].a = <<op.a[1] + ST7735_X_OFFSET, op.a[2] + ST7735_Y_OFFSET,
                               op.a[1] + ST7735_X_OFFSET, op.a[2] + ST7735_Y_OFFSET>>
           /\ <<lcd.xs, lcd.ys, lcd.xe, lcd.ye>> = Windows[1].a
           /\ lcd.cmd = ST7735_RAMWR
           /\ lcd.n = 2
           /\ Len(Dmas) = 0

\* Both corners of a row were drawn, one of them twice with different colours.
C2_Witness ==
    /\ op.f = "tft_draw_pixel"
    /\ pixels[<<0, 0>>] = 4660
    /\ pixels[<<ST7735_WIDTH - 1, ST7735_HEIGHT - 1>>] = 43981
    /\ pixels[<<ST7735_WIDTH - 1, 0>>] = 4660
    /\ op.a = <<ST7735_WIDTH - 1, ST7735_HEIGHT - 1, 43981>>
    /\ lcd.ram[<<ST7735_WIDTH, ST7735_HEIGHT + ST7735_Y_OFFSET - 1>>] = 43981

(***************************************************************************)
(* C3.  A tft_draw_line call with x0 = x1 puts on the transport what       *)
(* _tft_draw_fast_v_line does over [min(y0,y1), max(y0,y1)], and one with  *)
(* y0 = y1 (x0 # x1) what _tft_draw_fast_h_line does over                  *)
(* [min(x0,x1), max(x0,x1)]; neither enters _tft_draw_line or              *)
(* tft_draw_pixel.                                                         *)
(***************************************************************************)
Min2(a, b) == IF a <= b THEN a ELSE b
IsBresenham(c) == c.f \in {"_tft_draw_line", "tft_draw_pixel"}
\* The driver as the last call found its pins (the first event of a drawing
\* call carries the data/command level the call found).
DrvBefore == [Drv EXCEPT !.dc = trace[1].dc]

C3_StraightLines ==
    (op.f = "tft_draw_line" /\ (op.a[1] = op.a[3] \/ op.a[2] = op.a[4])) =>
        LET x0 == op.a[1]
            y0 == op.a[2]
            x1 == op.a[3]
            y1 == op.a[4]
            c == op.a[5]
        IN  /\ SelectSeq(calls, IsBresenham) = <<>>
            /\ Len(Windows) = 1
            /\ x0 = x1 =>
                 /\ trace = _tft_draw_fast_v_line(DrvBefore, x0, Min2(y0, y1),
                                Max2(y0, y1) - Min2(y0, y1) + 1, c).trace
                 /\ Windows[1].a = <<x0 + ST7735_X_OFFSET,
                                     Min2(y0, y1) + ST7735_Y_OFFSET,
                                     x0 + ST7735_X_OFFSET,
                                     Max2(y0, y1) + ST7735_Y_OFFSET>>
            /\ x0 # x1 =>
                 /\ trace = _tft_draw_fast_h_line(DrvBefore, Min2(x0, x1), y0,
                                Max2(x0, x1) - Min2(x0, x1) + 1, c).trace
                 /\ Windows[1].a = <<Min2(x0, x1) + ST7735_X_OFFSET,
                                     y0 + ST7735_Y_OFFSET,
                                     Max2(x0, x1) + ST7735_X_OFFSET,
                                     y0 + ST7735_Y_OFFSET>>

\* A vertical line given bottom-up and drawn as one block of three pixels.
C3_Witness ==
    /\ op.f = "tft_draw_line"
    /\ op.a[1] = op.a[3]
    /\ op.a[2] = 2
    /\ op.a[4] = 0
    /\ Len(Dmas) = 1
    /\ Len(Dmas[1].d) = 6

(***************************************************************************)
(* C4.  For a tft_draw_line call with x0 # x1 and y0 # y1 inside the       *)
(* panel, the pixels plotted advance by exactly 1 per step along the major *)
(* axis (x when |dx| >= |dy|, y when steep), are max(|x1-x0|, |y1-y0|) + 1 *)
(* in number, and consecutive ones differ by at most 1 along the minor     *)
(* axis; (0,0)->(4,2) plots 5 pixels, monotonic in x.                      *)
(***************************************************************************)
IsDrawPixel(c) == c.f = "tft_draw_pixel"
Plotted == SelectSeq(calls, IsDrawPixel)
Abs(a) == IF a < 0 THEN -a ELSE a

C4_Bresenham ==
    (op.f = "tft_draw_line" /\ op.a[1] # op.a[3] /\ op.a[2] # op.a[4]) =>
        LET adx == Abs(op.a[3] - op.a[1])
            ady == Abs(op.a[4] - op.a[2])
            major == IF adx >= ady THEN 1 ELSE 2
            minor == IF adx >= ady THEN 2 ELSE 1
        IN  /\ Len(Plotted) = Max2(adx, ady) + 1
            /\ \A i \in 1..(Len(Plotted) - 1) :
                   /\ Plotted[i + 1].a[major] = Plotted[i].a[major] + 1
                   /\ Abs(Plotted[i + 1].a[minor] - Plotted[i].a[minor]) <= 1
            /\ \A i \in 1..Len(Plotted) :
                   /\ Plotted[i].a[1] \in 0..(ST7735_WIDTH - 1)
                   /\ Plotted[i].a[2] \in 0..(ST7735_HEIGHT - 1)
                   /\ Plotted[i].a[3] = op.a[5]

C4_Witness ==
    /\ op.f = "tft_draw_line"
    /\ op.a[1] = 0 /\ op.a[2] = 0 /\ op.a[3] = 4 /\ op.a[4] = 2
    /\ Len(Plotted) = 5
    /\ \A i \in 1..4 : Plotted[i + 1].a[1] = Plotted[i].a[1] + 1

\* SpecText: a caller that sets the cursor and the colour and prints
\* characters, strings and numbers.  Column 65530 puts the cursor 5 short of
\* the end of its 16 bits.
TX == {0, 65530}
NextText ==
    \/ Call_tft_set_cursor(TX, {0}) /\ UNCHANGED <<ncalls, xfer, main>>
    \/ Call_tft_set_color({4660}) /\ UNCHANGED <<ncalls, xfer, main>>
    \/ Call_tft_print_char({65}) /\ UNCHANGED <<ncalls, xfer, main>>
    \/ Call_tft_print(Strings) /\ UNCHANGED <<ncalls, xfer, main>>
    \/ Call_tft_print_number(Nums) /\ UNCHANGED <<ncalls, xfer, main>>
SpecText == Init /\ [][NextText]_vars

IsPrint(c) == c.f = "tft_print"
Prints == SelectSeq(calls, IsPrint)
IsPrintChar(c) == c.f = "tft_print_char"
PrintChars == SelectSeq(calls, IsPrintChar)

\* The decimal digits of n >= 0, and the 11-character field of an integer:
\* its decimal representation, right-justified and padded with spaces (the
\* digits of a negative n are taken without negating it).
RECURSIVE Decimal(_)
Decimal(n) == IF n < 10 THEN <<48 + n>> ELSE Decimal(n \div 10) \o <<48 + (n % 10)>>
Field11(n) ==
    LET body == IF n >= 0 THEN Decimal(n)
                ELSE IF n > -10 THEN <<45, 48 - n>>
                ELSE <<45>> \o Decimal(-CDiv10(n)) \o <<48 - CMod10(n)>>
    IN  SubSeq(<<32, 32, 32, 32, 32, 32, 32, 32, 32, 32, 32>>, 1, 11 - Len(body))
        \o body

(***************************************************************************)
(* C5.  For every 32-bit signed integer n, 0, negative values and          *)
(* -2147483648 included, tft_print_number(n) passes to tft_print a string  *)
(* of exactly 11 characters: the decimal representation of n, with a       *)
(* leading '-' when n < 0, right-justified and padded on the left with     *)
(* spaces.                                                                 *)
(***************************************************************************)
C5_PrintNumber ==
    op.f = "tft_print_number" =>
        /\ Len(Prints) = 1
        /\ Len(Prints[1].a) = 11
        /\ Prints[1].a = Field11(op.a[1])

\* C5 for every n but -2147483648, whose negation the code leaves undefined:
\* tft_print_number(n) passes the 11-character field of n to tft_print.
C5_PrintNumberDefined ==
    (op.f = "tft_print_number" /\ op.a[1] # INT32_MIN) =>
        /\ Len(Prints) = 1
        /\ Len(Prints[1].a) = 11
        /\ Prints[1].a = Field11(op.a[1])
        /\ Len(PrintChars) = 11

\* -7 was printed as 9 spaces, '-' and '7'.
C5_Witness ==
    /\ op.f = "tft_print_number"
    /\ op.a[1] = -7
    /\ Prints[1].a = <<32, 32, 32, 32, 32, 32, 32, 32, 32, 45, 55>>

(***************************************************************************)
(* C6.  tft_print_char leaves cursor_x and cursor_y unchanged; tft_print   *)
(* of an n-character string advances cursor_x by exactly 6n, as a 16-bit   *)
(* unsigned value, and leaves cursor_y unchanged; its k-th character       *)
(* (from 0) is rendered with cursor_x at the initial cursor_x + 6k.        *)
(***************************************************************************)
C6_CursorAdvance ==
    [][/\ op'.f = "tft_print_char" =>
            /\ cursor_x' = cursor_x
            /\ cursor_y' = cursor_y
       /\ op'.f = "tft_print" =>
            LET n == Len(op'.a)
            IN  /\ cursor_x' = (cursor_x + 6 * n) % 65536
                /\ cursor_y' = cursor_y
                /\ Len(PrintChars') = n
                /\ \A k \in 0..(n - 1) :
                       PrintChars'[k + 1].a =
                           <<op'.a[k + 1], (cursor_x + 6 * k) % 65536, cursor_y>>]_vars

\* Two characters were printed from column 65531: the second was rendered at
\* column 1 and the cursor ends at column 7.
C6_Witness ==
    /\ op.f = "tft_print"
    /\ Len(op.a) = 2
    /\ Len(PrintChars) = 2
    /\ PrintChars[1].a[2] = 65531
    /\ PrintChars[2].a[2] = 1
    /\ cursor_x = 7

(***************************************************************************)
(* C7.  For every cursor position, tft_print_char sets a window 5 columns  *)
(* wide and 7 rows tall anchored at the cursor,                            *)
(* (cursor_x, cursor_y, cursor_x + 4, cursor_y + 6), and streams the       *)
(* 70-byte glyph buffer into it once.                                      *)
(***************************************************************************)
C7_GlyphWindow ==
    op.f = "tft_print_char" =>
        /\ Len(Windows) = 1
        /\ Windows[1].a = <<cursor_x, cursor_y, U16(cursor_x + 4), U16(cursor_y + 6)>>
        /\ Len(Dmas) = 1
        /\ Len(Dmas[1].d) = 70
        /\ Dmas[1].v = 1

\* What the code does instead: the last row of the window is cursor_x + 6.
C7_GlyphWindowAsCoded ==
    op.f = "tft_print_char" =>
        /\ Len(Windows) = 1
        /\ Windows[1].a = <<cursor_x, cursor_y, U16(cursor_x + 4), U16(cursor_x + 6)>>
        /\ Len(Dmas) = 1
        /\ Len(Dmas[1].d) = 70
        /\ Dmas[1].v = 1

\* A character was printed with the cursor at the panel's origin, (1, 26): the
\* window ends at row 7, above its first row.
C7_Witness ==
    /\ op.f = "tft_print_char"
    /\ cursor_x = ST7735_X_OFFSET
    /\ cursor_y = ST7735_Y_OFFSET
    /\ Windows[1].a = <<1, 26, 5, 7>>

(***************************************************************************)
(* C8.  Every tft_set_window(x0, y0, x1, y1) emits, in this order and with *)
(* nothing interleaved: command CASET, data x0 then x1, command RASET,     *)
(* data y0 then y1, command RAMWR, each 16-bit value as two data bytes,    *)
(* high byte first.  So every pixel stream of every primitive is preceded  *)
(* by this whole sequence, with RAMWR the last command before the first    *)
(* pixel byte.                                                             *)
(***************************************************************************)
\* The bytes of tft_set_window(a), each with the level of the data/command
\* pin: 0 for a command, 1 for data.
WindowBytes(a) ==
    <<<<0, ST7735_CASET>>, <<1, Hi(a[1])>>, <<1, Lo(a[1])>>,
                           <<1, Hi(a[3])>>, <<1, Lo(a[3])>>,
      <<0, ST7735_RASET>>, <<1, Hi(a[2])>>, <<1, Lo(a[2])>>,
                           <<1, Hi(a[4])>>, <<1, Lo(a[4])>>,
      <<0, ST7735_RAMWR>>>>
\* The events of a tft_set_window: 11 bytes and 7 settings of the
\* data/command pin.
WindowEvents == 11 + 7
\* The bytes among the events from..to of the last call.
BytesOf(from, to) ==
    LET evs == SelectSeq(SubSeq(trace, from, to), IsByte)
    IN  [i \in 1..Len(evs) |-> <<evs[i].dc, evs[i].v>>]
\* Event j of the last call is one of a tft_set_window.
InWindow(j) ==
    \E i \in 1..Len(Windows) :
        j > Windows[i].at /\ j <= Windows[i].at + WindowEvents
\* Event j of the last call sends pixels: data that is no argument of a
\* command of tft_set_window or of tft_init.
IsPixels(j) ==
    /\ IsSent(trace[j])
    /\ trace[j].dc = 1
    /\ ~InWindow(j)
    /\ op.f # "tft_init"

C8_SetWindow ==
    /\ \A i \in 1..Len(Windows) :
           LET from == Windows[i].at + 1
               to == Windows[i].at + WindowEvents
           IN  /\ to <= Len(trace)
               /\ \A j \in from..to : trace[j].k \in {"dc", "byte"}
               /\ BytesOf(from, to) = WindowBytes(Windows[i].a)
    /\ \A j \in 1..Len(trace) :
           IsPixels(j) =>
               \E i \in 1..Len(Windows) :
                   LET to == Windows[i].at + WindowEvents
                   IN  /\ to < j
                       /\ \A m \in (to + 1)..(j - 1) :
                              /\ ~(IsByte(trace[m]) /\ trace[m].dc = 0)
                              /\ ~InWindow(m)

\* A rectangle's outline was drawn: four windows, a block of pixels after
\* each.
C8_Witness ==
    /\ op.f = "tft_draw_rect"
    /\ Len(Windows) = 4
    /\ Len(Dmas) = 4
    /\ \A i \in 1..4 : IsPixels(Windows[i].at + WindowEvents + 2)
    /\ BytesOf(Windows[4].at + 1, Windows[4].at + WindowEvents)[5] =
           <<1, MaxExtent + ST7735_X_OFFSET - 1>>

(***************************************************************************)
(* tft_init on the bus: the events of the last call other than the         *)
(* settings of the data/command and chip select pins, each as              *)
(*   <<"cfg">>, <<"rst", level>>, <<"delay", ms>>, <<"cmd", byte>>,        *)
(*   <<"data", byte>> or <<"block", bytes, repeat>>.                       *)
(***************************************************************************)
OnBus(e) == e.k \notin {"dc", "cs"}
BusEvent(e) ==
    CASE e.k = "cfg" -> <<"cfg">>
      [] e.k = "byte" -> <<IF e.dc = 0 THEN "cmd" ELSE "data", e.v>>
      [] e.k = "dma" -> <<"block", e.d, e.v>>
      [] OTHER -> <<e.k, e.v>>
Bus ==
    LET evs == SelectSeq(trace, OnBus)
    IN  [i \in 1..Len(evs) |-> BusEvent(evs[i])]
IsNoDelay(b) == b[1] # "delay"
IsSettled(b) == b \in {<<"cmd", ST7735_INVON>>, <<"cmd", ST7735_NORON>>,
                        <<"cmd", ST7735_DISPON>>}

\* The order of the events of tft_init that are no delays.
InitOrder ==
    <<<<"cfg">>, <<"rst", 0>>, <<"rst", 1>>,
      <<"cmd", ST7735_SLPOUT>>,
      <<"cmd", ST7735_MADCTL>>,
      <<"data", ST7735_MADCTL_MY + ST7735_MADCTL_MV + ST7735_MADCTL_BGR>>,
      <<"cmd", ST7735_COLMOD>>, <<"data", 5>>,
      <<"cmd", ST7735_GMCTRP1>>, <<"block", gamma_p, 1>>,
      <<"cmd", ST7735_GMCTRN1>>, <<"block", gamma_n, 1>>,
      <<"cmd", ST7735_INVON>>, <<"cmd", ST7735_NORON>>,
      <<"cmd", ST7735_DISPON>>>>

\* Event b of the bus is followed at once by a delay of at least ms.
DelayAfter(b, ms) ==
    \A i \in 1..Len(Bus) :
        Bus[i] = b => /\ i < Len(Bus)
                      /\ Bus[i + 1][1] = "delay"
                      /\ Bus[i + 1][2] >= ms

(***************************************************************************)
(* C9, as claimed.  tft_init emits: bus configuration, reset asserted,     *)
(* delay >= 50 ms, reset released, delay >= 50 ms, sleep-out, delay        *)
(* >= 120 ms, memory-access-control with one data byte, colour-mode with   *)
(* data 0x05, positive gamma and a 16-byte block, negative gamma and a     *)
(* 16-byte block, inversion-on, normal-display-on, display-on; and each of *)
(* the three final commands is followed by a settling delay before the     *)
(* next bus event.                                                         *)
(***************************************************************************)
C9_InitSequence ==
    op.f = "tft_init" =>
        /\ SelectSeq(Bus, IsNoDelay) = InitOrder
        /\ DelayAfter(<<"rst", 0>>, 50)
        /\ DelayAfter(<<"rst", 1>>, 50)
        /\ DelayAfter(<<"cmd", ST7735_SLPOUT>>, 120)
        /\ DelayAfter(<<"cmd", ST7735_INVON>>, 1)
        /\ DelayAfter(<<"cmd", ST7735_NORON>>, 1)
        /\ DelayAfter(<<"cmd", ST7735_DISPON>>, 1)

(***************************************************************************)
(* C9, amended.  tft_init emits the events of C9 in that order, with the   *)
(* delays after the resets and after sleep-out; of the three final         *)
(* commands, normal-display-on and display-on are each followed by a 10 ms *)
(* delay, and inversion-on is preceded by a 10 ms delay and followed at    *)
(* once by normal-display-on.  These are all the delays of tft_init.       *)
(***************************************************************************)
C9_InitSequenceAsCoded ==
    op.f = "tft_init" =>
        /\ SelectSeq(Bus, IsNoDelay) = InitOrder
        /\ Len(Bus) = Len(InitOrder) + 6
        /\ DelayAfter(<<"rst", 0>>, 50)
        /\ DelayAfter(<<"rst", 1>>, 50)
        /\ DelayAfter(<<"cmd", ST7735_SLPOUT>>, 120)
        /\ DelayAfter(<<"block", gamma_n, 1>>, 10)
        /\ \A i \in 1..(Len(Bus) - 1) :
               Bus[i] = <<"cmd", ST7735_INVON>> =>
                   /\ Bus[i - 1] = <<"delay", 10>>
                   /\ Bus[i + 1] = <<"cmd", ST7735_NORON>>
        /\ DelayAfter(<<"cmd", ST7735_NORON>>, 10)
        /\ DelayAfter(<<"cmd", ST7735_DISPON>>, 10)

\* tft_init ran after a drawing call: the panel's last command is display-on
\* and the call ends with the last of its six delays and the chip deselected.
C9_Witness ==
    /\ op.f = "tft_init"
    /\ lcd.cmd = ST7735_DISPON
    /\ Len(Bus) = 21
    /\ Bus[21] = <<"delay", 10>>
    /\ Bus[17] = <<"cmd", ST7735_INVON>>
    /\ cs = 1
    /\ nwr > 0 \/ buffer[1] # 0

(***************************************************************************)
(* C10.  In every reachable state, for every primitive called with         *)
(* coordinates and extents within the panel's resolution, no write to the  *)
(* scratch buffer uses an index >= 2 * display width; and the number of    *)
(* buffer bytes a vertical line writes (_tft_draw_fast_v_line, also by way *)
(* of tft_draw_line and tft_draw_rect) does not grow with its height h: it *)
(* is what a line of height 1 writes.                                      *)
(***************************************************************************)
\* The last call's arguments are within the panel.
InPanel ==
    CASE op.f \in {"tft_fill_rect", "tft_draw_rect"} ->
             /\ op.a[3] >= 1 /\ op.a[1] + op.a[3] <= ST7735_WIDTH
             /\ op.a[4] >= 1 /\ op.a[2] + op.a[4] <= ST7735_HEIGHT
      [] op.f = "tft_draw_line" ->
             /\ op.a[1] < ST7735_WIDTH /\ op.a[3] < ST7735_WIDTH
             /\ op.a[2] < ST7735_HEIGHT /\ op.a[4] < ST7735_HEIGHT
      [] OTHER -> TRUE
\* The bytes a vertical line of height h writes to the scratch buffer.
VLineBytes(h) == _tft_draw_fast_v_line(Drv, 0, 0, h, 0).nwr
\* The bytes a horizontal line of width w writes to the scratch buffer.
HLineBytes(w) == _tft_draw_fast_h_line(Drv, 0, 0, w, 0).nwr

C10_BufferBound ==
    InPanel =>
        /\ ~oob
        /\ maxidx < 2 * ST7735_WIDTH
        /\ (op.f = "tft_draw_line" /\ op.a[1] = op.a[3]) => nwr = VLineBytes(1)
        /\ op.f = "tft_draw_rect" =>
               nwr = 2 * HLineBytes(op.a[3]) + 2 * VLineBytes(1)

\* What holds of the code: with a panel no taller than wide, no write is
\* past the end of the buffer, and a vertical line of height h writes h
\* times the bytes of one pixel.
C10_BufferBoundAsCoded ==
    InPanel =>
        /\ ~oob
        /\ maxidx < 2 * ST7735_WIDTH
        /\ (op.f = "tft_draw_line" /\ op.a[1] = op.a[3]) =>
               nwr = (Abs(op.a[4] - op.a[2]) + 1) * VLineBytes(1)
        /\ op.f = "tft_draw_rect" =>
               nwr = 2 * HLineBytes(op.a[3]) + 2 * op.a[4] * VLineBytes(1)

\* A vertical line of the panel's full height was drawn: it wrote 2 bytes for
\* each of its rows.
C10_Witness ==
    /\ op.f = "tft_draw_line"
    /\ op.a[1] = op.a[3]
    /\ Abs(op.a[4] - op.a[2]) + 1 = ST7735_HEIGHT
    /\ nwr = 2 * ST7735_HEIGHT
    /\ maxidx = 2 * ST7735_HEIGHT - 1

(***************************************************************************)
(* C11.  In every public call BEGIN_WRITE and END_WRITE alternate, the     *)
(* first of them a BEGIN_WRITE and the last an END_WRITE (none nested, no  *)
(* end without a begin); every byte and every block is sent after a        *)
(* BEGIN_WRITE and with chip select low; and a call that opened a          *)
(* transaction returns with chip select high.                              *)
(***************************************************************************)
IsCs(e) == e.k = "cs"
CsEvents == SelectSeq(trace, IsCs)
\* The place in the trace of the call's first BEGIN_WRITE or END_WRITE
\* (past the end of the trace when it has none).
FirstCs ==
    IF CsEvents = <<>> THEN Len(trace) + 1
    ELSE CHOOSE i \in 1..Len(trace) :
             /\ IsCs(trace[i])
             /\ \A j \in 1..(i - 1) : ~IsCs(trace[j])

C11_Transactions ==
    /\ Len(CsEvents) % 2 = 0
    /\ \A i \in 1..Len(CsEvents) : CsEvents[i].v = (IF i % 2 = 1 THEN 0 ELSE 1)
    /\ \A i \in 1..Len(trace) :
           IsSent(trace[i]) => trace[i].cs = 0 /\ i > FirstCs
    /\ CsEvents # <<>> => cs = 1

\* A rectangle's outline was drawn in four transactions, each closed.
C11_Witness ==
    /\ op.f = "tft_draw_rect"
    /\ Len(CsEvents) = 8
    /\ Len(Dmas) = 4
    /\ cs = 1

(***************************************************************************)
(* C12.  Every coordinate sent in an addressing window is the caller's     *)
(* logical coordinate plus the offset, added once: for tft_draw_pixel,     *)
(* tft_fill_rect, tft_draw_bitmap, tft_draw_rect, tft_draw_line (straight  *)
(* lines, and the pixels of the others, which lie between the two ends and *)
(* start and end on them), and for tft_print_char, whose window is         *)
(* anchored at the cursor that tft_set_cursor stored offset-corrected.     *)
(***************************************************************************)
\* The window of the logical rectangle (x0, y0)..(x1, y1).
Win(x0, y0, x1, y1) ==
    <<x0 + ST7735_X_OFFSET, y0 + ST7735_Y_OFFSET,
      x1 + ST7735_X_OFFSET, y1 + ST7735_Y_OFFSET>>
\* The windows the last call set, in order.
WinArgs == [i \in 1..Len(Windows) |-> Windows[i].a]
\* The windows of the last call, a drawing primitive, are those of its
\* logical coordinates.
DrawnWithOffset ==
    CASE op.f = "tft_draw_pixel" ->
             WinArgs = <<Win(op.a[1], op.a[2], op.a[1], op.a[2])>>
      [] op.f \in {"tft_fill_rect", "tft_draw_bitmap"} ->
             WinArgs = <<Win(op.a[1], op.a[2], op.a[1] + op.a[3] - 1,
                             op.a[2] + op.a[4] - 1)>>
      [] op.f = "tft_draw_rect" ->
             LET x == op.a[1]
                 y == op.a[2]
                 xe == op.a[1] + op.a[3] - 1
                 ye == op.a[2] + op.a[4] - 1
             IN  WinArgs = <<Win(x, y, xe, y), Win(x, ye, xe, ye),
                             Win(x, y, x, ye), Win(xe, y, xe, ye)>>
      [] op.f = "tft_draw_line" ->
             LET xa == Min2(op.a[1], op.a[3])
                 xb == Max2(op.a[1], op.a[3])
                 ya == Min2(op.a[2], op.a[4])
                 yb == Max2(op.a[2], op.a[4])
                 n == Len(Plotted)
             IN  IF xa = xb \/ ya = yb
                 THEN WinArgs = <<Win(xa, ya, xb, yb)>>
                 ELSE /\ n >= 2
                      /\ WinArgs = [i \in 1..n |->
                                       Win(Plotted[i].a[1], Plotted[i].a[2],
                                           Plotted[i].a[1], Plotted[i].a[2])]
                      /\ \A i \in 1..n : /\ Plotted[i].a[1] \in xa..xb
                                         /\ Plotted[i].a[2] \in ya..yb
                      /\ {<<Plotted[1].a[1], Plotted[1].a[2]>>,
                           <<Plotted[n].a[1], Plotted[n].a[2]>>}
                             = {<<op.a[1], op.a[2]>>, <<op.a[3], op.a[4]>>}
      [] op.f = "tft_set_cursor" ->
             /\ cursor_x = op.a[1] + ST7735_X_OFFSET
             /\ cursor_y = op.a[2] + ST7735_Y_OFFSET
      [] OTHER -> TRUE

C12_OffsetOnce ==
    /\ DrawnWithOffset
    /\ op.f = "tft_print_char" =>
           WinArgs = <<<<cursor_x, cursor_y, cursor_x + 4, cursor_y + 6>>>>

\* What holds of the code: the last row of the window of tft_print_char is
\* the cursor's column plus 6; every other coordinate is as claimed.
C12_OffsetOnceAsCoded ==
    /\ DrawnWithOffset
    /\ op.f = "tft_print_char" =>
           WinArgs = <<<<cursor_x, cursor_y, cursor_x + 4, cursor_x + 6>>>>

\* A character was printed at a cursor set to column MaxCoord, row 0: the
\* last row of its window carries the column's offset, not the row's.
C12_Witness ==
    /\ op.f = "tft_print_char"
    /\ cursor_x = MaxCoord + ST7735_X_OFFSET
    /\ cursor_y = ST7735_Y_OFFSET
    /\ WinArgs[1][4] = MaxCoord + ST7735_X_OFFSET + 6
    /\ WinArgs[1][4] # ST7735_Y_OFFSET + 6

(***************************************************************************)
(* C13.  Every step leaves the cursor and the two colours alone, but for:  *)
(* tft_set_cursor may change the cursor, tft_set_color the foreground      *)
(* colour, tft_set_background_color the background colour, and tft_print   *)
(* and tft_print_number the cursor's column.                               *)
(***************************************************************************)
C13_Frame ==
    [][/\ op'.f \in {"tft_init", "tft_draw_pixel", "tft_fill_rect",
                     "tft_draw_bitmap", "tft_draw_line", "tft_draw_rect",
                     "tft_print_char"} =>
              UNCHANGED <<cursor_x, cursor_y, color, bg_color>>
       /\ op'.f = "tft_set_cursor" => UNCHANGED <<color, bg_color>>
       /\ op'.f = "tft_set_color" => UNCHANGED <<cursor_x, cursor_y, bg_color>>
       /\ op'.f = "tft_set_background_color" =>
              UNCHANGED <<cursor_x, cursor_y, color>>
       /\ op'.f \in {"tft_print", "tft_print_number"} =>
              UNCHANGED <<cursor_y, color, bg_color>>]_vars

\* A rectangle was drawn after the cursor and the foreground colour were
\* set: both are as set.
C13_Witness ==
    /\ op.f = "tft_draw_rect"
    /\ cursor_x = MaxCoord + ST7735_X_OFFSET
    /\ cursor_y = MaxCoord + ST7735_Y_OFFSET
    /\ color = 4660
    /\ bg_color = WHITE

(***************************************************************************)
(* SpecWait: a caller whose calls are followed through their waits for the *)
(* transport.  A call in progress runs its events in program order.        *)
(* SPI_send (lines 173-181) writes the byte to the data register, which    *)
(* starts the transfer, and loops until the transmit flag is set;          *)
(* SPI_send_DMA (lines 152-170) clears the transfer-complete flag and      *)
(* loops until it is set, repeat times.  The flag is the transport's to    *)
(* set.  xfer.flag is the flag being polled, xfer.i the event the call has *)
(* come to, xfer.left the iterations of while (repeat--) still to start,   *)
(* xfer.done the waits the call has come out of.                           *)
(***************************************************************************)
\* Calls the caller of SpecWait makes: at most MaxWaitCalls.
MaxWaitCalls == 2
drvvars == <<cursor_x, cursor_y, color, bg_color, buffer, dc, cs, rst, lcd,
             printed, pixels, op, trace, calls, nfill, nwr, maxidx, oob>>

\* The calls of the caller, all within the panel: function, arguments and
\* what the call does to the driver as it finds it.
WaitCalls ==
    {<<"tft_init", <<>>, tft_init(Drv)>>,
     <<"tft_set_cursor", <<0, 0>>, tft_set_cursor(Drv, 0, 0)>>,
     <<"tft_print_char", <<65>>, tft_print_char(Drv, 65)>>,
     <<"tft_print", <<65, 45>>, tft_print(Drv, <<65, 45>>)>>,
     <<"tft_print_number", <<-7>>, tft_print_number(Drv, -7, "defined")>>,
     <<"tft_draw_pixel", <<0, 0, 4660>>, tft_draw_pixel(Drv, 0, 0, 4660)>>,
     <<"tft_fill_rect", <<0, 0, MaxExtent, MaxExtent, 4660>>,
       tft_fill_rect(Drv, 0, 0, MaxExtent, MaxExtent, 4660)>>,
     <<"tft_draw_bitmap", <<0, 0, MaxExtent, MaxExtent, 0>>,
       tft_draw_bitmap(Drv, 0, 0, MaxExtent, MaxExtent,
                       Bitmap(MaxExtent, MaxExtent, 0))>>,
     <<"tft_draw_rect", <<0, 0, MaxExtent, MaxExtent, 4660>>,
       tft_draw_rect(Drv, 0, 0, MaxExtent, MaxExtent, 4660)>>,
     <<"tft_draw_line", <<0, 0, 0, MaxCoord, 4660>>,
       tft_draw_line(Drv, 0, 0, 0, MaxCoord, 4660)>>,
     <<"tft_draw_line", <<0, 0, MaxCoord + 1, MaxCoord, 4660>>,
       tft_draw_line(Drv, 0, 0, MaxCoord + 1, MaxCoord, 4660)>>}

\* A public call is entered.
StartCall ==
    /\ xfer.pc = "idle"
    /\ ncalls < MaxWaitCalls
    /\ ncalls' = ncalls + 1
    /\ \E c \in WaitCalls :
           xfer' = [pc |-> "run", f |-> c[1], a |-> c[2], res |-> c[3], i |-> 1,
                    left |-> 0, flag |-> xfer.flag, done |-> 0]
    /\ UNCHANGED <<drvvars, main>>

\* The call runs its next event.  SPI1->DATAR = data (line 176) and
\* DMA1->INTFCR = DMA1_FLAG_TC3 (line 162) leave the flag clear and the call
\* in the loop that polls it; while (repeat--) with repeat = 0 is passed.
StepEvent ==
    /\ xfer.pc = "run"
    /\ xfer.i <= Len(xfer.res.trace)
    /\ \E e \in {xfer.res.trace[xfer.i]} :
           xfer' = IF e.k = "byte"
                   THEN [xfer EXCEPT !.pc = "wait", !.flag = FALSE, !.left = 0]
                   ELSE IF e.k = "dma" /\ e.v > 0
                   THEN [xfer EXCEPT !.pc = "wait", !.flag = FALSE,
                                     !.left = e.v - 1]
                   ELSE [xfer EXCEPT !.i = @ + 1]
    /\ UNCHANGED <<drvvars, ncalls, main>>

\* The transport sets the flag the call is polling.
TransferComplete ==
    /\ xfer.pc = "wait"
    /\ ~xfer.flag
    /\ xfer' = [xfer EXCEPT !.flag = TRUE]
    /\ UNCHANGED <<drvvars, ncalls, main>>

\* Mutant: the wait gives up and goes on with the flag still clear.
M_Poll_gives_up ==
    /\ xfer.pc = "wait"
    /\ xfer' = IF xfer.left > 0
               THEN [xfer EXCEPT !.left = @ - 1, !.flag = FALSE, !.done = @ + 1]
               ELSE [xfer EXCEPT !.pc = "run", !.i = @ + 1, !.done = @ + 1]
    /\ UNCHANGED <<drvvars, ncalls, main>>

\* while (!flag) ; finds the flag set (lines 165-166, 179-180): the next
\* iteration of while (repeat--) clears it again, or the transfer is over.
Poll ==
    /\ xfer.pc = "wait"
    /\ xfer.flag
    /\ xfer' = IF xfer.left > 0
               THEN [xfer EXCEPT !.left = @ - 1, !.flag = FALSE, !.done = @ + 1]
               ELSE [xfer EXCEPT !.pc = "run", !.i = @ + 1, !.done = @ + 1]
    /\ UNCHANGED <<drvvars, ncalls, main>>

\* The call has run its last event and returns.
ReturnCall ==
    /\ xfer.pc = "run"
    /\ xfer.i > Len(xfer.res.trace)
    /\ Return(xfer.f, xfer.a, xfer.res)
    /\ xfer' = [xfer EXCEPT !.pc = "idle", !.res = <<>>]
    /\ UNCHANGED <<printed, pixels, ncalls, main>>

NextWait == StartCall \/ StepEvent \/ TransferComplete \/ Poll \/ ReturnCall
\* The processor goes on running the call, and the transport completes every
\* transfer it was given.
SpecWait ==
    /\ Init
    /\ [][NextWait]_vars
    /\ WF_vars(StepEvent) /\ WF_vars(Poll) /\ WF_vars(ReturnCall)
    /\ WF_vars(TransferComplete)

(***************************************************************************)
(* C14.  With the transport completing every transfer it is given, every   *)
(* call in progress returns; a call comes out of a wait only with the flag *)
(* set, so that with the flag never set it stays in the wait for ever; and *)
(* wherever a call is between two events, an END_WRITE included, it has    *)
(* come out of one wait for each byte and of repeat waits for each block   *)
(* it has sent.                                                            *)
(***************************************************************************)
RECURSIVE Repeats(_)
\* The iterations of while (repeat--) of a sequence of block transfers.
Repeats(ds) == IF ds = <<>> THEN 0 ELSE ds[1].v + Repeats(Tail(ds))
\* The waits of a sequence of events: one for a byte, repeat for a block.
Waits(tr) == Len(SelectSeq(tr, IsByte)) + Repeats(SelectSeq(tr, IsDma))

C14_Blocking ==
    /\ (xfer.pc # "idle") ~> (xfer.pc = "idle")
    /\ [][(xfer.pc = "wait" /\ xfer'.done # xfer.done) => xfer.flag]_vars
    /\ [][(xfer.pc = "wait" /\ xfer'.pc # "wait") => xfer.flag]_vars
    /\ [](xfer.pc = "run" =>
             xfer.done = Waits(SubSeq(xfer.res.trace, 1, xfer.i - 1)))
    /\ [](xfer.pc = "idle" => xfer.done = Waits(trace))

\* A rectangle of more than one row was filled and the call returned: it
\* waited for the 11 bytes of the window and for each sending of the row.
C14_Witness ==
    /\ xfer.pc = "idle"
    /\ op.f = "tft_fill_rect"
    /\ op.a[4] > 1
    /\ xfer.done = 11 + op.a[4]
    /\ cs = 1

(***************************************************************************)
(* C15.  A straight tft_draw_line, which is _tft_draw_fast_v_line or       *)
(* _tft_draw_fast_h_line, puts on the wire what tft_fill_rect puts there   *)
(* for the rectangle one pixel wide or one pixel high: the same window and *)
(* the same bytes in the same order, commands and data alike.              *)
(***************************************************************************)
\* What the panel is sent by one event: the bytes with the level of the
\* data/command pin, a block as many times as it is repeated.
WireOf(e) ==
    IF e.cs # 0 THEN <<>>
    ELSE IF e.k = "byte" THEN <<<<e.dc, e.v>>>>
    ELSE IF e.k = "dma"
    THEN [k \in 1..(Len(e.d) * e.v) |-> <<e.dc, e.d[((k - 1) % Len(e.d)) + 1]>>]
    ELSE <<>>
RECURSIVE Wire(_)
\* What the panel is sent by a sequence of events.
Wire(tr) == IF tr = <<>> THEN <<>> ELSE WireOf(tr[1]) \o Wire(Tail(tr))
\* The windows a call set, from the functions it entered.
WindowsOf(cs0) ==
    LET ws == SelectSeq(cs0, IsSetWindow)
    IN  [i \in 1..Len(ws) |-> ws[i].a]

C15_DegenerateRect ==
    (op.f = "tft_draw_line" /\ (op.a[1] = op.a[3] \/ op.a[2] = op.a[4])) =>
        LET xa == Min2(op.a[1], op.a[3])
            ya == Min2(op.a[2], op.a[4])
            w == Abs(op.a[3] - op.a[1]) + 1
            h == Abs(op.a[4] - op.a[2]) + 1
            r == tft_fill_rect(DrvBefore, xa, ya, w, h, op.a[5])
        IN  /\ WinArgs = WindowsOf(r.calls)
            /\ Wire(trace) = Wire(r.trace)
            /\ Len(Wire(trace)) = 11 + 2 * w * h

\* A vertical line of three pixels was drawn: six bytes in one block, where
\* tft_fill_rect sends a block of two bytes three times.
C15_Witness ==
    /\ op.f = "tft_draw_line"
    /\ op.a[1] = op.a[3]
    /\ Abs(op.a[4] - op.a[2]) = 2
    /\ Len(Dmas) = 1
    /\ Dmas[1].v = 1
    /\ Len(Wire(trace)) = 17

(***************************************************************************)
(* SpecRect: a caller that only draws outlines of rectangles, of extents   *)
(* 1..MaxRect and of the panel's full extent, at the origin and off it by  *)
(* MaxCoord along either axis.                                             *)
(***************************************************************************)
MaxRect == 3
RW == (1..MaxRect) \cup {ST7735_WIDTH}
RH == (1..MaxRect) \cup {ST7735_HEIGHT}
NextRect ==
    \/ Call_tft_draw_rect(CX, {0}, RW, RH, Colors)
           /\ UNCHANGED <<ncalls, xfer, main>>
    \/ Call_tft_draw_rect({0}, {MaxCoord}, RW, RH, {4660})
           /\ UNCHANGED <<ncalls, xfer, main>>
SpecRect == Init /\ [][NextRect]_vars

(***************************************************************************)
(* C16.  A tft_draw_rect(x, y, w, h, color) inside the panel makes four    *)
(* block transfers, each of pixels of color, and the pixels they write in  *)
(* the display RAM are exactly the outline of the rectangle: those of its  *)
(* first and last row and column.                                          *)
(***************************************************************************)
\* The last event of the part of the trace that follows window i, up to the
\* next window.
NextAt(i) == IF i < Len(Windows) THEN Windows[i + 1].at ELSE Len(trace)
\* What the panel is sent after window i is set.
PixelBytes(i) == Wire(SubSeq(trace, Windows[i].at + WindowEvents + 1, NextAt(i)))
\* The controller puts the n pixels it receives after RAMWR into the window
\* a row by row, from the first column of the first row, and starts again
\* there when the window is full.
PixelsInto(a, n) ==
    LET ww == a[3] - a[1] + 1
        wh == a[4] - a[2] + 1
    IN  IF ww <= 0 \/ wh <= 0 THEN {}
        ELSE {<<a[1] + (k % ww), a[2] + ((k \div ww) % wh)>> : k \in 0..(n - 1)}
\* The pixels of the display RAM the last call wrote.
Written ==
    UNION {PixelsInto(Windows[i].a, Len(PixelBytes(i)) \div 2) :
               i \in 1..Len(Windows)}
\* The outline of the logical rectangle, in the display RAM.
Outline(x, y, w, h) ==
    {<<px + ST7735_X_OFFSET, py + ST7735_Y_OFFSET>> :
        <<px, py>> \in {q \in (x..(x + w - 1)) \X (y..(y + h - 1)) :
                           \/ q[1] \in {x, x + w - 1}
                           \/ q[2] \in {y, y + h - 1}}}
\* Every pixel sent after window i is of colour c.
AllOfColor(i, c) ==
    LET b == PixelBytes(i)
    IN  /\ Len(b) % 2 = 0
        /\ \A k \in 1..Len(b) : b[k] = <<1, IF k % 2 = 1 THEN Hi(c) ELSE Lo(c)>>

C16_RectOutline ==
    (op.f = "tft_draw_rect" /\ InPanel) =>
        /\ Len(Dmas) = 4
        /\ Len(Windows) = 4
        /\ \A e \in 1..Len(trace) : IsByte(trace[e]) => InWindow(e)
        /\ \A i \in 1..4 : AllOfColor(i, op.a[5])
        /\ Written = Outline(op.a[1], op.a[2], op.a[3], op.a[4])

\* An outline with an inside was drawn: 3 by 3, eight pixels written and the
\* middle one left alone.
C16_Witness ==
    /\ op.f = "tft_draw_rect"
    /\ op.a = <<0, MaxCoord, 3, 3, 4660>>
    /\ Cardinality(Written) = 8
    /\ <<1 + ST7735_X_OFFSET, MaxCoord + 1 + ST7735_Y_OFFSET>> \notin Written

(***************************************************************************)
(* C17.  After tft_print_char(c) the scratch buffer holds 7 rows of 5      *)
(* pixels, 70 bytes stored by the call: for row i in 0..6 and column j in  *)
(* 0..4, buffer[2 * (5 * i + j)] and the byte after it are the high and    *)
(* low byte of the foreground colour where bit i of font[5 * c + j] is set *)
(* and of the background colour where it is clear.                         *)
(***************************************************************************)
CellColour(c, i, j) == IF BitSet(font(5 * c + j), i) THEN color ELSE bg_color
C17_GlyphBuffer ==
    op.f = "tft_print_char" =>
        /\ nwr = 70
        /\ maxidx = 69
        /\ \A i \in 0..6 : \A j \in 0..4 :
               /\ buffer[2 * (5 * i + j) + 1] = Hi(CellColour(op.a[1], i, j))
               /\ buffer[2 * (5 * i + j) + 2] = Lo(CellColour(op.a[1], i, j))
\* 'A' printed in colour 4660 over a different background: row 0 is
\* background, foreground, background at columns 0, 2, 4, and column 0 turns
\* to foreground at row 2.
C17_Witness ==
    /\ op.f = "tft_print_char" /\ op.a[1] = 65
    /\ color = 4660 /\ bg_color # color
    /\ SubSeq(buffer, 1, 2) = <<Hi(bg_color), Lo(bg_color)>>
    /\ SubSeq(buffer, 5, 6) = <<18, 52>>
    /\ SubSeq(buffer, 9, 10) = <<Hi(bg_color), Lo(bg_color)>>
    /\ SubSeq(buffer, 21, 22) = <<18, 52>>

(***************************************************************************)
(* SpecIrq: tft_fill_rect interrupted.  The main program runs              *)
(* tft_fill_rect in three steps: the fill of the scratch buffer, lines     *)
(* 381-389; BEGIN_WRITE and tft_set_window, lines 391-392; DATA_MODE, the  *)
(* block transfer and END_WRITE, lines 393-395.  Its arguments and its     *)
(* local sz are its own (main.a, main.sz); the scratch buffer, the pins    *)
(* and the panel are shared.  Between the steps an interrupt handler may   *)
(* run a whole tft_fill_rect or tft_draw_pixel, at most MaxIrq times in    *)
(* one call of the main program.                                           *)
(***************************************************************************)
MaxIrq == 1
IW == {1, MaxExtent}
IH == {1, 2}

\* The window the panel is holding.
PanelWindow == <<lcd.xs, lcd.ys, lcd.xe, lcd.ye>>

MainFill ==
    /\ main.pc \in {"idle", "done"}
    /\ \E x \in CX, y \in {0}, w \in IW, h \in IH, c \in Colors :
           \E s \in {FillPhase(Drv, x, y, w, h, c)} :
               /\ Return("tft_fill_rect", <<x, y, w, h, c>>, s)
               /\ main' = [pc |-> "filled", a |-> <<x, y, w, h, c>>,
                           sz |-> s.sz, irqs |-> 0, sent |-> <<>>, win |-> <<>>]
    /\ UNCHANGED <<printed, pixels, ncalls, xfer>>

MainWindow ==
    /\ main.pc = "filled"
    /\ \E s \in {WindowPhase(Drv, main.a[1], main.a[2], main.a[3], main.a[4])} :
           Return("tft_fill_rect", main.a, s)
    /\ main' = [main EXCEPT !.pc = "windowed"]
    /\ UNCHANGED <<printed, pixels, ncalls, xfer>>

MainSend ==
    /\ main.pc = "windowed"
    /\ \E s \in {SendPhase(Drv, main.sz, main.a[4])} :
           /\ Return("tft_fill_rect", main.a, s)
           /\ main' = [main EXCEPT !.pc = "done",
                                   !.sent = s.trace[2].d,
                                   !.win = PanelWindow]
    /\ UNCHANGED <<printed, pixels, ncalls, xfer>>

\* The handler runs a whole primitive between two steps of the main program.
IrqFillRect ==
    /\ main.pc \in {"filled", "windowed"}
    /\ main.irqs < MaxIrq
    /\ \E x \in CX, w \in IW, c \in Colors :
           \E s \in {tft_fill_rect(Drv, x, MaxCoord, w, 1, c)} :
               Return("tft_fill_rect", <<x, MaxCoord, w, 1, c>>, s)
    /\ main' = [main EXCEPT !.irqs = @ + 1]
    /\ UNCHANGED <<printed, pixels, ncalls, xfer>>

IrqDrawPixel ==
    /\ main.pc \in {"filled", "windowed"}
    /\ main.irqs < MaxIrq
    /\ \E x \in CX, c \in Colors :
           \E s \in {tft_draw_pixel(Drv, x, MaxCoord, c)} :
               Return("tft_draw_pixel", <<x, MaxCoord, c>>, s)
    /\ main' = [main EXCEPT !.irqs = @ + 1]
    /\ UNCHANGED <<printed, pixels, ncalls, xfer>>

NextIrq == MainFill \/ MainWindow \/ MainSend \/ IrqFillRect \/ IrqDrawPixel
SpecIrq == Init /\ [][NextIrq]_vars

\* The bytes the main program's call computed, and the window it set.
OwnBytes == PixelRun(main.a[3], main.a[5])
OwnWindow ==
    <<main.a[1] + ST7735_X_OFFSET, main.a[2] + ST7735_Y_OFFSET,
      main.a[1] + ST7735_X_OFFSET + main.a[3] - 1,
      main.a[2] + ST7735_Y_OFFSET + main.a[4] - 1>>
(***************************************************************************)
(* C18.  A tft_fill_rect that no other primitive interrupted has streamed  *)
(* the bytes it computed into the window it set, with the chip selected    *)
(* and the line in data mode: a call that streamed other bytes, or into    *)
(* another window, was interrupted.  The witness is such a call: the       *)
(* handler ran between its set_window and its transfer, and it streamed    *)
(* the handler's bytes against the handler's window.                       *)
(***************************************************************************)
C18_NotReentrant ==
    (main.pc = "done" /\ main.irqs = 0) =>
        /\ main.sent = OwnBytes
        /\ main.win = OwnWindow
        /\ trace[2].k = "dma" /\ trace[2].cs = 0 /\ trace[2].dc = 1
C18_Witness ==
    /\ main.pc = "done" /\ main.irqs > 0
    /\ main.sent # OwnBytes
    /\ main.win # OwnWindow

(***************************************************************************)
(* C19.  In every public call, every command byte (the byte of one of the  *)
(* write_command_8 of tft_set_window or tft_init) is sent with the         *)
(* data/command line low, every other byte (of a write_data_8 or           *)
(* write_data_16) with the line high, and every block transfer, of a gamma *)
(* table or of pixels, with the line high, the line having been driven     *)
(* high since the last command byte.                                       *)
(***************************************************************************)
\* Event j is the ByteNo(j)-th byte of the last call.
ByteNo(j) == Len(SelectSeq(SubSeq(trace, 1, j), IsByte))
\* Byte event j is the byte of a write_command_8: in tft_set_window, lines
\* 283-289, the 2nd, 10th and 18th event (CASET, RASET, RAMWR); in tft_init,
\* lines 216-258, every byte but the arguments of MADCTL and COLMOD, the 3rd
\* and the 5th.  tft_draw_pixel's two bytes, line 375, are data.
CommandAt(j) ==
    \/ \E i \in 1..Len(Windows) : j - Windows[i].at \in {2, 10, 18}
    \/ op.f = "tft_init" /\ ByteNo(j) \notin {3, 5}
\* The last event before event e that drove the line or sent a command byte.
LastModeOrCommand(e) ==
    LET E == {j \in 1..(e - 1) :
                 trace[j].k = "dc" \/ (IsByte(trace[j]) /\ CommandAt(j))}
    IN  IF E = {} THEN 0 ELSE CHOOSE j \in E : \A k \in E : k <= j
C19_DataCommandLine ==
    \A e \in 1..Len(trace) :
        /\ IsByte(trace[e]) => trace[e].dc = (IF CommandAt(e) THEN 0 ELSE 1)
        /\ IsDma(trace[e]) =>
               /\ trace[e].dc = 1
               /\ LastModeOrCommand(e) > 0
               /\ trace[LastModeOrCommand(e)].k = "dc"
               /\ trace[LastModeOrCommand(e)].v = 1
\* tft_init: eight commands, two data bytes and the two gamma tables, each
\* table after its command and a DATA_MODE.
C19_Witness ==
    /\ op.f = "tft_init"
    /\ Len(Dmas) = 2
    /\ Cardinality({e \in 1..Len(trace) :
                       IsByte(trace[e]) /\ CommandAt(e)}) = 8
    /\ Cardinality({e \in 1..Len(trace) :
                       IsByte(trace[e]) /\ ~CommandAt(e)}) = 2
    /\ \E e \in 3..Len(trace) :
           /\ IsDma(trace[e]) /\ trace[e].dc = 1
           /\ trace[e - 1].k = "dc"
           /\ IsByte(trace[e - 2]) /\ trace[e - 2].dc = 0
           /\ trace[e - 2].v = ST7735_GMCTRP1

(***************************************************************************)
(* C20.  Every tft_draw_line(x0, y0, x1, y1, color) between two points of  *)
(* the panel writes the pixels of both points, whether it draws a vertical *)
(* or a horizontal fast line or calls _tft_draw_line, and                  *)
(* tft_draw_line(x1, y1, x0, y0, color) writes the same set of pixels.     *)
(***************************************************************************)
\* The pixels of the display RAM written by a call that left the driver as r.
WrittenBy(r) ==
    LET ws == SelectSeq(r.calls, IsSetWindow)
        to(i) == IF i < Len(ws) THEN ws[i + 1].at ELSE Len(r.trace)
        sent(i) == Wire(SubSeq(r.trace, ws[i].at + WindowEvents + 1, to(i)))
    IN  UNION {PixelsInto(ws[i].a, Len(sent(i)) \div 2) : i \in 1..Len(ws)}
\* The pixel of the display RAM that holds the logical pixel (x, y).
RamPixel(x, y) == <<x + ST7735_X_OFFSET, y + ST7735_Y_OFFSET>>
\* The branch of tft_draw_line a call takes.
Branch(a) == IF a[1] = a[3] THEN "vertical"
             ELSE IF a[2] = a[4] THEN "horizontal" ELSE "bresenham"
IsGeneralLine(c) == c.f = "_tft_draw_line"
C20_LineEnds ==
    (op.f = "tft_draw_line" /\ InPanel) =>
        /\ RamPixel(op.a[1], op.a[2]) \in Written
        /\ RamPixel(op.a[3], op.a[4]) \in Written
        /\ Written = WrittenBy(tft_draw_line(DrvBefore, op.a[3], op.a[4],
                                              op.a[1], op.a[2], op.a[5]))
        /\ Len(SelectSeq(calls, IsGeneralLine)) =
               (IF Branch(op.a) = "bresenham" THEN 1 ELSE 0)
\* A line drawn by _tft_draw_line from right to left and steep, its ends put
\* in order before the loop: (MaxLine, 0) to (MaxLine - 1, 2), three pixels.
C20_Witness ==
    /\ op.f = "tft_draw_line"
    /\ op.a = <<MaxLine, 0, MaxLine - 1, 2, 4660>>
    /\ Branch(op.a) = "bresenham"
    /\ Cardinality(Written) = 3
    /\ {RamPixel(MaxLine, 0), RamPixel(MaxLine - 1, 2)} \subseteq Written

=============================================================================
